---- MODULE Spec2Model ----
(***************************************************************************)
(* Suitability scoring and design-fit engine of the Vic Rooming House      *)
(* Assessor (src/core/scoring.py).                                         *)
(*                                                                         *)
(* Number representation (Python floats become exact fixed-point values):  *)
(*   lengths           centimetres          12.44 m    -> 1244             *)
(*   areas             1/100 square metre   316.0 sqm  -> 31600            *)
(*   distances         metres               5000 m     -> 5000             *)
(*   sub-scores        points               25         -> 25               *)
(*   weighted scores   1/1000 point         16.0       -> 16000            *)
(*   total score       1/10 point           75.0       -> 750              *)
(* A Python value is None (the empty tuple) or Val(v) (the 1-tuple <<v>>); *)
(* a dict is a function from its keys to such values.                      *)
(***************************************************************************)
EXTENDS Integers, Sequences, FiniteSets, TLC

VARIABLES
    assessment_data,  \* the assessment record handed to the engine (a dict)
    lot,              \* positional arguments of a geometry call
    score,            \* the score handed to get_viability_status_from_score
    result,           \* what the last call returned
    history,          \* the calls of a session so far: function, record, output
    session_state,    \* st.session_state: the authentication keys of the browser session
    accepted,         \* the email verify_credentials accepted since the last logout, or None
    database,         \* the rows of the assessments table, in id order
    services          \* what the geocoder, parcel, planning and POI services answer
                      \* for the address being searched, and how the search was asked

vars == <<assessment_data, lot, score, result, history, session_state, accepted, database, services>>

----------------------------------------------------------------------------
(* Python values *)

None == << >>

Val(v) == <<v>>

Get(d, k, default) == IF k \in DOMAIN d THEN d[k] ELSE default

\* `x or {}` / `x or []` for a dict, a list or None
OrEmpty(x) == IF x = None THEN << >> ELSE x[1]

\* `str(x or "")` for a string or None
StrOrEmpty(x) == IF x = None THEN "" ELSE x[1]

\* truth value of a flag that is a bool or None
Truthy(x) == x # None /\ x[1]

\* float(x or 0) for a number or None
FloatOr0(x) == IF x = None THEN 0 ELSE x[1]

Min2(a, b) == IF a <= b THEN a ELSE b

Max2(a, b) == IF a >= b THEN a ELSE b

SetMin(S) == CHOOSE x \in S : \A y \in S : x <= y

----------------------------------------------------------------------------
(* Module constants, src/core/scoring.py:6-18 *)

BLUEPRINT_MIN_WIDTH == 1244
BLUEPRINT_MIN_DEPTH == 2560
BLUEPRINT_MAX_DEPTH == 2760
BLUEPRINT_MIN_AREA == 31600
BLUEPRINT_MAX_AREA == 34600

FRONT_SETBACK_REQUIRED == 600
REAR_SETBACK_MIN == 600
REAR_SETBACK_MAX == 800

PROJECT_TYPE_ROOMING == "Standard Rooming House"
PROJECT_TYPE_SDA == "SDA/NDIS Unit"
PROJECT_TYPE_DUAL_OCC == "Standard Dual Occupancy"

ProjectTypes == {PROJECT_TYPE_ROOMING, PROJECT_TYPE_SDA, PROJECT_TYPE_DUAL_OCC}

\* str.strip() on the strings the model passes as project types
Strip(s) ==
    CASE s = " Standard Rooming House " -> PROJECT_TYPE_ROOMING
      [] s = " SDA/NDIS Unit " -> PROJECT_TYPE_SDA
      [] s = " Standard Dual Occupancy " -> PROJECT_TYPE_DUAL_OCC
      [] s = " " -> ""
      [] OTHER -> s

\* project_type is None or Val(string)
_normalize_project_type(project_type) ==
    LET val == Strip(StrOrEmpty(project_type))
    IN  IF val \in ProjectTypes THEN val ELSE PROJECT_TYPE_ROOMING

get_logic_thresholds(project_type) ==
    LET pt == _normalize_project_type(project_type)
    IN  IF pt = PROJECT_TYPE_SDA THEN
            [project_type |-> PROJECT_TYPE_SDA,
             min_width |-> 1244, min_depth |-> 2560, max_depth |-> 3000,
             target_area_min |-> 34000, target_area_max |-> 42000,
             front_setback |-> 700, rear_setback_min |-> 800, rear_setback_max |-> 1000,
             min_lot_area |-> 34000,
             requires_hospital_proximity |-> TRUE, max_hospital_distance_m |-> Val(5000),
             revenue_units |-> 4, weekly_rate_min |-> 650, weekly_rate_max |-> 900]
        ELSE IF pt = PROJECT_TYPE_DUAL_OCC THEN
            [project_type |-> PROJECT_TYPE_DUAL_OCC,
             min_width |-> 1400, min_depth |-> 2800, max_depth |-> 4000,
             target_area_min |-> 65000, target_area_max |-> 90000,
             front_setback |-> 600, rear_setback_min |-> 600, rear_setback_max |-> 800,
             min_lot_area |-> 65000,
             requires_hospital_proximity |-> FALSE, max_hospital_distance_m |-> None,
             revenue_units |-> 2, weekly_rate_min |-> 520, weekly_rate_max |-> 680]
        ELSE
            [project_type |-> PROJECT_TYPE_ROOMING,
             min_width |-> BLUEPRINT_MIN_WIDTH, min_depth |-> BLUEPRINT_MIN_DEPTH,
             max_depth |-> BLUEPRINT_MAX_DEPTH,
             target_area_min |-> BLUEPRINT_MIN_AREA, target_area_max |-> BLUEPRINT_MAX_AREA,
             front_setback |-> FRONT_SETBACK_REQUIRED,
             rear_setback_min |-> REAR_SETBACK_MIN, rear_setback_max |-> REAR_SETBACK_MAX,
             min_lot_area |-> BLUEPRINT_MIN_AREA,
             requires_hospital_proximity |-> FALSE, max_hospital_distance_m |-> None,
             revenue_units |-> 5, weekly_rate_min |-> 250, weekly_rate_max |-> 300]

\* amenities_summary is None or Val(dict); its "hospitals" entry is None or
\* Val(list); a list item is a dict whose "distance_m" is None or Val(metres).
\* Returns None or Val(nearest distance).
_nearest_hospital_distance_m(d) ==
    LET amenities == OrEmpty(Get(d, "amenities_summary", None))
        hospitals == OrEmpty(Get(amenities, "hospitals", None))
        dists == {Get(hospitals[i], "distance_m", None)[1] :
                     i \in {j \in DOMAIN hospitals : Get(hospitals[j], "distance_m", None) # None}}
    IN  IF dists # {} THEN Val(SetMin(dists)) ELSE None

----------------------------------------------------------------------------
(* Setbacks and recommendations *)

\* evaluate_setback_requirements with the front setback left out of the totals
evaluate_setback_requirements_no_front(lot_depth, project_type) ==
    LET thresholds == get_logic_thresholds(project_type)
        depth == FloatOr0(lot_depth)
        required_depth_min == thresholds.min_depth + thresholds.rear_setback_min
        required_depth_max == thresholds.max_depth + thresholds.rear_setback_max
    IN  [front_setback_m |-> thresholds.front_setback,
         rear_setback_min_m |-> thresholds.rear_setback_min,
         rear_setback_max_m |-> thresholds.rear_setback_max,
         required_total_depth_min_m |-> required_depth_min,
         required_total_depth_max_m |-> required_depth_max,
         lot_depth_m |-> depth,
         supports_minimum_blueprint_with_setbacks |-> depth >= required_depth_min,
         supports_full_blueprint_range_with_setbacks |-> depth >= required_depth_max]

\* lot_depth is None or Val(cm); project_type is None or Val(string)
evaluate_setback_requirements(lot_depth, project_type) ==
    LET thresholds == get_logic_thresholds(project_type)
        depth == FloatOr0(lot_depth)
        required_depth_min == thresholds.min_depth + thresholds.front_setback
                                  + thresholds.rear_setback_min
        required_depth_max == thresholds.max_depth + thresholds.front_setback
                                  + thresholds.rear_setback_max
    IN  [front_setback_m |-> thresholds.front_setback,
         rear_setback_min_m |-> thresholds.rear_setback_min,
         rear_setback_max_m |-> thresholds.rear_setback_max,
         required_total_depth_min_m |-> required_depth_min,
         required_total_depth_max_m |-> required_depth_max,
         lot_depth_m |-> depth,
         supports_minimum_blueprint_with_setbacks |-> depth >= required_depth_min,
         supports_full_blueprint_range_with_setbacks |-> depth >= required_depth_max]

\* The hospital line of the recommendations and the hospital reason of the
\* validator share one guard: `requires_hospital_proximity and assessment_data`.
\* data is None (no record supplied) or Val(dict); an empty dict is falsy.
HospitalCheckRuns(thresholds, data) ==
    thresholds.requires_hospital_proximity /\ data # None /\ DOMAIN data[1] # {}

\* Each recommendation is the name of the sentence the code emits.
get_blueprint_setback_recommendations(lot_depth, project_type, data) ==
    LET thresholds == get_logic_thresholds(project_type)
        setback == evaluate_setback_requirements(lot_depth, project_type)
        depth_rec ==
            IF ~setback.supports_minimum_blueprint_with_setbacks
            THEN "Current lot depth is below minimum depth needed for Blueprint + setbacks"
            ELSE IF ~setback.supports_full_blueprint_range_with_setbacks
            THEN "Lot depth supports minimum Blueprint depth but not full target range with setbacks"
            ELSE "PASS: setback criteria are satisfied for this lot depth"
        nearest == IF data = None THEN None ELSE _nearest_hospital_distance_m(data[1])
        hospital_recs ==
            IF ~HospitalCheckRuns(thresholds, data) THEN << >>
            ELSE IF nearest = None
            THEN <<"SDA/NDIS requirement: nearest hospital distance could not be confirmed">>
            ELSE IF nearest[1] > thresholds.max_hospital_distance_m[1]
            THEN <<"SDA/NDIS requirement not met: nearest hospital too far">>
            ELSE <<"SDA/NDIS hospital proximity check passed">>
    IN  <<"Apply setbacks", depth_rec>> \o hospital_recs

----------------------------------------------------------------------------
(* Physical suitability score *)

\* WidthScore that gives 8 points only above the minimum width
WidthScore_strict(width, thresholds) ==
    IF width > thresholds.min_width THEN 8
    ELSE IF width >= Max2(1200, thresholds.min_width - 50) THEN 5
    ELSE IF width >= Max2(1150, thresholds.min_width - 100) THEN 2
    ELSE 0

WidthScore(width, thresholds) ==
    IF width >= thresholds.min_width THEN 8
    ELSE IF width >= Max2(1200, thresholds.min_width - 50) THEN 5
    ELSE IF width >= Max2(1150, thresholds.min_width - 100) THEN 2
    ELSE 0

\* DepthScore with no upper end to the 8-point band
DepthScore_no_max(depth, thresholds) ==
    IF thresholds.min_depth <= depth THEN 8
    ELSE IF (thresholds.min_depth - 160) <= depth THEN 5
    ELSE IF depth >= (thresholds.min_depth - 360) THEN 2
    ELSE 0

\* DepthScore with the expanded band widened by 1.6 m on both sides
DepthScore_symmetric(depth, thresholds) ==
    IF thresholds.min_depth <= depth /\ depth <= thresholds.max_depth THEN 8
    ELSE IF (thresholds.min_depth - 160) <= depth /\ depth <= (thresholds.max_depth + 160) THEN 5
    ELSE IF depth >= (thresholds.min_depth - 360) THEN 2
    ELSE 0

DepthScore(depth, thresholds) ==
    IF thresholds.min_depth <= depth /\ depth <= thresholds.max_depth THEN 8
    ELSE IF (thresholds.min_depth - 160) <= depth /\ depth <= (thresholds.max_depth + 240) THEN 5
    ELSE IF depth >= (thresholds.min_depth - 360) THEN 2
    ELSE 0

AreaScore(area, thresholds) ==
    IF thresholds.target_area_min <= area /\ area <= thresholds.target_area_max THEN 6
    ELSE IF Max2(28000, thresholds.target_area_min - 4000) <= area
            /\ area <= (thresholds.target_area_max + 8000) THEN 4
    ELSE IF area >= Max2(24000, thresholds.target_area_min - 9000) THEN 1
    ELSE 0

\* slope is None or Val(string)
SlopeScore(slope) ==
    IF slope = Val("Flat") THEN 3 ELSE IF slope = Val("Moderate") THEN 2 ELSE 0

\* Returns the tuple (min(25, total), width_score, depth_score, area_score, slope_score).
_calculate_project_physical_score(lot_width, lot_depth, lot_area, slope, project_type) ==
    LET thresholds == get_logic_thresholds(project_type)
        width_score == WidthScore(FloatOr0(lot_width), thresholds)
        depth_score == DepthScore(FloatOr0(lot_depth), thresholds)
        area_score == AreaScore(FloatOr0(lot_area), thresholds)
        slope_score == SlopeScore(slope)
        total == width_score + depth_score + area_score + slope_score
    IN  <<Min2(25, total), width_score, depth_score, area_score, slope_score>>

----------------------------------------------------------------------------
(* Design-fit validator *)

\* Each reason is the name of the sentence the code emits.
WidthReasons(width, thresholds) ==
    IF width < thresholds.min_width THEN <<"Lot width is less than required minimum">> ELSE << >>

\* DepthReasons that also rejects a lot deeper than max_depth
DepthReasons_with_max(depth, thresholds) ==
    IF depth < thresholds.min_depth \/ depth > thresholds.max_depth
    THEN <<"Lot depth is less than required minimum">> ELSE << >>

DepthReasons(depth, thresholds) ==
    IF depth < thresholds.min_depth THEN <<"Lot depth is less than required minimum">> ELSE << >>

AreaReasons(area, thresholds) ==
    IF area < thresholds.min_lot_area THEN <<"Lot area is less than required minimum">> ELSE << >>

\* DualOccReasons that also rejects a lot of exactly 650 sqm
DualOccReasons_inclusive(area, project_type) ==
    IF project_type = Val(PROJECT_TYPE_DUAL_OCC) /\ area <= 65000
    THEN <<"Dual Occupancy requires minimum lot area of 650m2">> ELSE << >>

\* compares the project_type argument as passed, not the normalized one
DualOccReasons(area, project_type) ==
    IF project_type = Val(PROJECT_TYPE_DUAL_OCC) /\ area < 65000
    THEN <<"Dual Occupancy requires minimum lot area of 650m2">> ELSE << >>

HospitalReasons(thresholds, data) ==
    LET nearest == IF data = None THEN None ELSE _nearest_hospital_distance_m(data[1])
    IN  IF ~HospitalCheckRuns(thresholds, data) THEN << >>
        ELSE IF nearest = None
        THEN <<"SDA/NDIS requires nearest hospital check, but no hospital data was found">>
        ELSE IF nearest[1] > thresholds.max_hospital_distance_m[1]
        THEN <<"SDA/NDIS hospital proximity not met">>
        ELSE << >>

validate_urhh_design(lot_width, lot_depth, lot_area, project_type, data) ==
    LET thresholds == get_logic_thresholds(project_type)
        width == FloatOr0(lot_width)
        depth == FloatOr0(lot_depth)
        area == FloatOr0(lot_area)
        reasons == WidthReasons(width, thresholds) \o DepthReasons(depth, thresholds)
                     \o AreaReasons(area, thresholds) \o DualOccReasons(area, project_type)
                     \o HospitalReasons(thresholds, data)
    IN  [pass_fail |-> Len(reasons) = 0,
         reasons |-> reasons,
         recommendations |-> get_blueprint_setback_recommendations(Val(depth), project_type, data),
         setback_requirements |-> evaluate_setback_requirements(Val(depth), project_type),
         project_type |-> thresholds.project_type]

----------------------------------------------------------------------------
(* Weighted score *)

\* weights of calculate_weighted_score, in percent
ZONE_WEIGHT == 40
TRANSPORT_WEIGHT == 25
PHYSICAL_WEIGHT == 25
COMPLIANCE_WEIGHT == 10

\* round(x, 1): x in 1/1000 point, result in 1/10 point, ties to even
Round1(x) ==
    LET q == x \div 100
        r == x % 100
    IN  IF r > 50 \/ (r = 50 /\ q % 2 = 1) THEN q + 1 ELSE q

\* ZoneScore with the covenant test left out
ZoneScore_no_covenant(d) ==
    IF Truthy(Get(d, "has_overlay", None)) THEN 0
    ELSE IF Truthy(Get(d, "is_preferred_zone", None)) THEN 25
    ELSE 10

\* the zone branch of calculate_weighted_score
ZoneScore(d) ==
    IF Truthy(Get(d, "has_overlay", None)) \/ Truthy(Get(d, "has_covenant", None)) THEN 0
    ELSE IF Truthy(Get(d, "is_preferred_zone", None)) THEN 25
    ELSE 10

\* the distance bands of calculate_weighted_score
TransportBand(dist) ==
    IF dist <= 400 THEN 25
    ELSE IF dist <= 600 THEN 22
    ELSE IF dist <= 800 THEN 18
    ELSE IF dist <= 1000 THEN 10
    ELSE 0

\* HospitalCap that also caps a hospital at exactly the maximum distance
HospitalCap_inclusive(transport_score, thresholds, d) ==
    LET nearest_hospital_m == _nearest_hospital_distance_m(d)
    IN  IF ~thresholds.requires_hospital_proximity THEN transport_score
        ELSE IF nearest_hospital_m = None THEN Min2(transport_score, 8)
        ELSE IF nearest_hospital_m[1] >= thresholds.max_hospital_distance_m[1]
        THEN Min2(transport_score, 8)
        ELSE transport_score

\* HospitalCap that lets a record with no known hospital keep its band
HospitalCap_known_only(transport_score, thresholds, d) ==
    LET nearest_hospital_m == _nearest_hospital_distance_m(d)
    IN  IF ~thresholds.requires_hospital_proximity THEN transport_score
        ELSE IF nearest_hospital_m = None THEN transport_score
        ELSE IF nearest_hospital_m[1] > thresholds.max_hospital_distance_m[1]
        THEN Min2(transport_score, 8)
        ELSE transport_score

\* HospitalCap applied whatever the project type
HospitalCap_every_type(transport_score, thresholds, d) ==
    LET nearest_hospital_m == _nearest_hospital_distance_m(d)
    IN  IF nearest_hospital_m = None THEN Min2(transport_score, 8)
        ELSE IF nearest_hospital_m[1] > 5000 THEN Min2(transport_score, 8)
        ELSE transport_score

\* the hospital ceiling applied to the banded transport score
HospitalCap(transport_score, thresholds, d) ==
    LET nearest_hospital_m == _nearest_hospital_distance_m(d)
    IN  IF ~thresholds.requires_hospital_proximity THEN transport_score
        ELSE IF nearest_hospital_m = None THEN Min2(transport_score, 8)
        ELSE IF nearest_hospital_m[1] > thresholds.max_hospital_distance_m[1]
        THEN Min2(transport_score, 8)
        ELSE transport_score

\* sum([check_heating, check_windows, check_energy]); the flags are bools
ComplianceChecks(d) ==
    LET n(k) == IF Get(d, k, Val(FALSE))[1] THEN 1 ELSE 0
    IN  n("check_heating") + n("check_windows") + n("check_energy")

\* ComplianceMap as a linear scale rounded to whole points
ComplianceMap_linear(compliance_checks) ==
    CASE compliance_checks = 0 -> 0
      [] compliance_checks = 1 -> 3
      [] compliance_checks = 2 -> 7
      [] compliance_checks = 3 -> 10
      [] OTHER -> 0

\* compliance_map.get(compliance_checks, 0)
ComplianceMap(compliance_checks) ==
    CASE compliance_checks = 0 -> 0
      [] compliance_checks = 1 -> 3
      [] compliance_checks = 2 -> 6
      [] compliance_checks = 3 -> 10
      [] OTHER -> 0

\* Weighted with every sub-score normalised by the compliance maximum
Weighted_fixed_max(sub_score, max, weight) == (sub_score * weight * 1000) \div 10

\* Weighted with the four sub-scores weighted equally
Weighted_equal(sub_score, max, weight) == (sub_score * 25 * 1000) \div max

\* one term of the weighted total, (sub_score / max * weight * 100), in 1/1000 point
Weighted(sub_score, max, weight) == (sub_score * weight * 1000) \div max

\* a None where a number or a bool is needed raises TypeError
ScoreRaises(d) ==
    \/ Get(d, "dist_transport", Val(1000)) = None
    \/ \E k \in {"check_heating", "check_windows", "check_energy"} : Get(d, k, Val(FALSE)) = None

\* The locals of calculate_weighted_score at its return statement; the
\* function returns total.
calculate_weighted_score(d) ==
    LET project_type == _normalize_project_type(Get(d, "project_type", None))
        thresholds == get_logic_thresholds(Val(project_type))
        zone_score == ZoneScore(d)
        dist == Get(d, "dist_transport", Val(1000))[1]
        transport_score == HospitalCap(TransportBand(dist), thresholds, d)
        physical == _calculate_project_physical_score(
                        Get(d, "lot_width", Val(0)), Get(d, "lot_depth", Val(0)),
                        Get(d, "lot_area", Val(0)), Get(d, "slope", Val("Moderate")),
                        Val(project_type))
        compliance_score == ComplianceMap(ComplianceChecks(d))
        total_score == Weighted(zone_score, 25, ZONE_WEIGHT)
                         + Weighted(transport_score, 25, TRANSPORT_WEIGHT)
                         + Weighted(physical[1], 25, PHYSICAL_WEIGHT)
                         + Weighted(compliance_score, 10, COMPLIANCE_WEIGHT)
    IN  IF ScoreRaises(d) THEN [raised |-> TRUE]
        ELSE [raised |-> FALSE,
              zone_score |-> zone_score,
              transport_score |-> transport_score,
              physical_score |-> physical[1],
              compliance_score |-> compliance_score,
              total |-> Round1(total_score)]

\* get_viability_status_from_score with strict comparisons
get_viability_status_from_score_strict(s) ==
    IF s > 750 THEN [status |-> "HIGHLY SUITABLE", color |-> "green"]
    ELSE IF s > 500 THEN [status |-> "CONDITIONAL", color |-> "orange"]
    ELSE [status |-> "NOT SUITABLE", color |-> "red"]

\* s is the score in 1/10 point
get_viability_status_from_score(s) ==
    IF s >= 750 THEN [status |-> "HIGHLY SUITABLE", color |-> "green"]
    ELSE IF s >= 500 THEN [status |-> "CONDITIONAL", color |-> "orange"]
    ELSE [status |-> "NOT SUITABLE", color |-> "red"]

----------------------------------------------------------------------------
(* Score breakdown.  Each feedback is the name of the sentence the code emits. *)

\* BreakdownZone that tests the preferred zone before the hard fails
BreakdownZone_preferred_first(d) ==
    IF Truthy(Get(d, "is_preferred_zone", None))
    THEN <<25, "Preferred zone (GRZ/RGZ) suitable for rooming houses">>
    ELSE IF Truthy(Get(d, "has_overlay", None))
    THEN <<0, "Heritage/Character overlay restricts density (HARD FAIL)">>
    ELSE IF Truthy(Get(d, "has_covenant", None))
    THEN <<0, "Single dwelling covenant restricts multi-occupancy (HARD FAIL)">>
    ELSE <<10, "Non-preferred zone - limited density allowances">>

\* <<zone_score, zone_feedback>>
BreakdownZone(d) ==
    IF Truthy(Get(d, "has_overlay", None))
    THEN <<0, "Heritage/Character overlay restricts density (HARD FAIL)">>
    ELSE IF Truthy(Get(d, "has_covenant", None))
    THEN <<0, "Single dwelling covenant restricts multi-occupancy (HARD FAIL)">>
    ELSE IF Truthy(Get(d, "is_preferred_zone", None))
    THEN <<25, "Preferred zone (GRZ/RGZ) suitable for rooming houses">>
    ELSE <<10, "Non-preferred zone - limited density allowances">>

\* <<transport_score, transport_feedback>> before the hospital rule
BreakdownTransportBand(dist) ==
    IF dist <= 400 THEN <<25, "Excellent">>
    ELSE IF dist <= 600 THEN <<22, "Good">>
    ELSE IF dist <= 800 THEN <<18, "Acceptable">>
    ELSE IF dist <= 1000 THEN <<10, "Limited">>
    ELSE <<0, "Poor">>

\* BreakdownHospital that reports the hospital rule without applying the cap
BreakdownHospital_uncapped(transport_score, thresholds, d) ==
    LET nearest_hospital_m == _nearest_hospital_distance_m(d)
    IN  IF ~thresholds.requires_hospital_proximity THEN <<transport_score, "">>
        ELSE IF nearest_hospital_m = None
        THEN <<transport_score, "SDA/NDIS hospital proximity: unknown">>
        ELSE IF nearest_hospital_m[1] > thresholds.max_hospital_distance_m[1]
        THEN <<transport_score, "SDA/NDIS hospital proximity not met">>
        ELSE <<transport_score, "SDA/NDIS hospital proximity met">>

\* <<transport_score, transport_feedback suffix>> after the hospital rule
BreakdownHospital(transport_score, thresholds, d) ==
    LET nearest_hospital_m == _nearest_hospital_distance_m(d)
    IN  IF ~thresholds.requires_hospital_proximity THEN <<transport_score, "">>
        ELSE IF nearest_hospital_m = None
        THEN <<Min2(transport_score, 8), "SDA/NDIS hospital proximity: unknown">>
        ELSE IF nearest_hospital_m[1] > thresholds.max_hospital_distance_m[1]
        THEN <<Min2(transport_score, 8), "SDA/NDIS hospital proximity not met">>
        ELSE <<transport_score, "SDA/NDIS hospital proximity met">>

WidthFeedback(lot_width, thresholds) ==
    IF lot_width >= thresholds.min_width THEN "Width: Meets minimum"
    ELSE IF lot_width >= 1200 THEN "Width: Near minimum"
    ELSE "Width: Below minimum"

DepthFeedback(lot_depth, thresholds) ==
    IF thresholds.min_depth <= lot_depth /\ lot_depth <= thresholds.max_depth
    THEN "Depth: In target" ELSE "Depth: Outside target"

AreaFeedback(lot_area, thresholds) ==
    IF thresholds.target_area_min <= lot_area /\ lot_area <= thresholds.target_area_max
    THEN "Area: In target" ELSE "Area: Outside target"

DualOccFeedback(lot_area, project_type) ==
    IF project_type # PROJECT_TYPE_DUAL_OCC THEN << >>
    ELSE IF lot_area >= 65000 THEN <<"Dual Occupancy lot area check: PASS">>
    ELSE <<"Dual Occupancy lot area check: FAIL">>

SlopeFeedback(slope) ==
    IF slope = Val("Flat") THEN "Slope: Ideal for development"
    ELSE IF slope = Val("Moderate") THEN "Slope: Moderate - requires geotechnical assessment"
    ELSE "Slope: Steep - high SDA access costs"

SetbackFeedback(setback_requirements) ==
    <<"Setbacks required">>
    \o (IF ~setback_requirements.supports_minimum_blueprint_with_setbacks
        THEN <<"Lot depth may not support Blueprint + setbacks">> ELSE << >>)

\* <<compliance_score, compliance_feedback>>
BreakdownCompliance(compliance_checks) ==
    IF compliance_checks = 3 THEN <<10, "Fully compliant">>
    ELSE IF compliance_checks = 2 THEN <<6, "Minor upgrades needed">>
    ELSE IF compliance_checks = 1 THEN <<3, "Significant upgrades required">>
    ELSE <<0, "Major upgrades required">>

\* the breakdown compares the lot dimensions as stored, without float(x or 0)
BreakdownRaises(d) ==
    \/ ScoreRaises(d)
    \/ \E k \in {"lot_width", "lot_depth", "lot_area"} : Get(d, k, Val(0)) = None

Component(sub_score, max, weight, feedback) ==
    [score |-> sub_score, max |-> max, weight |-> weight, feedback |-> feedback,
     weighted_score |-> Weighted(sub_score, max, weight)]

detailed_score_breakdown(d) ==
    LET zone == BreakdownZone(d)
        project_type == _normalize_project_type(Get(d, "project_type", None))
        thresholds == get_logic_thresholds(Val(project_type))
        dist == Get(d, "dist_transport", Val(1000))[1]
        band == BreakdownTransportBand(dist)
        transport == BreakdownHospital(band[1], thresholds, d)
        lot_width == Get(d, "lot_width", Val(0))
        lot_depth == Get(d, "lot_depth", Val(0))
        lot_area == Get(d, "lot_area", Val(0))
        slope == Get(d, "slope", Val("Moderate"))
        setback_requirements == evaluate_setback_requirements(lot_depth, Val(project_type))
        physical_feedback ==
            <<WidthFeedback(lot_width[1], thresholds),
              DepthFeedback(lot_depth[1], thresholds),
              AreaFeedback(lot_area[1], thresholds)>>
            \o DualOccFeedback(lot_area[1], project_type)
            \o <<SlopeFeedback(slope)>>
            \o SetbackFeedback(setback_requirements)
        physical == _calculate_project_physical_score(lot_width, lot_depth, lot_area, slope,
                                                      Val(project_type))
        compliance == BreakdownCompliance(ComplianceChecks(d))
    IN  IF BreakdownRaises(d) THEN [raised |-> TRUE]
        ELSE [raised |-> FALSE,
              zone |-> Component(zone[1], 25, ZONE_WEIGHT, zone[2]),
              transport |-> Component(transport[1], 25, TRANSPORT_WEIGHT,
                                      <<band[2], transport[2]>>),
              physical |-> Component(physical[1], 25, PHYSICAL_WEIGHT, physical_feedback),
              compliance |-> Component(compliance[1], 10, COMPLIANCE_WEIGHT, compliance[2])]

----------------------------------------------------------------------------
(* Revenue estimate.  Multipliers are in percent (1.10 -> 110), money in    *)
(* whole dollars.                                                           *)

\* round(num / den) to an integer, ties to even
RoundHalfEven(num, den) ==
    LET q == num \div den
        r == num % den
    IN  IF 2 * r > den \/ (2 * r = den /\ q % 2 = 1) THEN q + 1 ELSE q

\* float(assessment_data.get('dist_transport', 9999) or 9999)
RevenueDistance(d) ==
    LET x == Get(d, "dist_transport", Val(9999))
    IN  IF x = None \/ x[1] = 0 THEN 9999 ELSE x[1]

\* <<transport_multiplier, proximity_band>>
TransportMultiplier(dist_transport) ==
    IF dist_transport <= 400 THEN <<110, "Premium access (<=400m)">>
    ELSE IF dist_transport <= 800 THEN <<100, "Strong access (<=800m)">>
    ELSE IF dist_transport <= 1200 THEN <<92, "Moderate access (<=1200m)">>
    ELSE <<85, "Limited access (>1200m)">>

estimate_revenue_potential(d) ==
    LET thresholds == get_logic_thresholds(Get(d, "project_type", None))
        units == thresholds.revenue_units
        base_weekly_min == units * thresholds.weekly_rate_min
        base_weekly_max == units * thresholds.weekly_rate_max
        band == TransportMultiplier(RevenueDistance(d))
        weekly_min == RoundHalfEven(base_weekly_min * band[1], 100)
        weekly_max == RoundHalfEven(base_weekly_max * band[1], 100)
        annual_min == weekly_min * 52
        annual_max == weekly_max * 52
    IN  [raised |-> FALSE,
         project_type |-> thresholds.project_type,
         units_assumed |-> units,
         rooms_assumed |-> units,
         weekly_min |-> weekly_min,
         weekly_max |-> weekly_max,
         weekly_midpoint |-> RoundHalfEven(weekly_min + weekly_max, 2),
         annual_min |-> annual_min,
         annual_max |-> annual_max,
         annual_midpoint |-> RoundHalfEven(annual_min + annual_max, 2),
         transport_multiplier |-> band[1],
         proximity_band |-> band[2]]

----------------------------------------------------------------------------
(* Rooming-house minimum standards, src/rooming_house_standards.py         *)
(*                                                                         *)
(* A field of the regulatory record holds a number or a string:            *)
(* PyNum(x) is the number x, PyText a non-empty string that float() and    *)
(* int() reject.  Areas of the record are in 1/100 sqm as elsewhere; the   *)
(* gross floor area the checker works with is in 1/1000 sqm, so that half  *)
(* of a lot area stays exact (300.0 sqm -> 300000).                        *)

PyNum(x) == Val([kind |-> "num", n |-> x])

PyText == Val([kind |-> "text", n |-> 0])

\* truth value of a field that is a number, a string or None
TruthyField(x) == x # None /\ (x[1].kind = "text" \/ x[1].n # 0)

\* float(x) and int(x): the number, or None where the conversion raises
ToNumber(x) == IF x # None /\ x[1].kind = "num" THEN Val(x[1].n) ELSE None

\* truth value of a string or None
TruthyStr(x) == x # None /\ x[1] # ""

get_standards ==
    [max_gross_floor_area_sqm |-> 300000,
     max_persons_accommodated |-> 12,
     max_bedrooms |-> 8]

\* the explicit gross floor area, if the record has a usable one
SuppliedGfa(d) ==
    IF "gross_floor_area" \in DOMAIN d /\ TruthyField(d.gross_floor_area)
           /\ ToNumber(d.gross_floor_area) # None
    THEN Val(10 * ToNumber(d.gross_floor_area)[1])
    ELSE None

\* the estimate from the lot area: the whole lot instead of half of it
EstimatedGfa_full_lot(d) ==
    IF "lot_area" \in DOMAIN d /\ TruthyField(d.lot_area) /\ ToNumber(d.lot_area) # None
    THEN Val(10 * ToNumber(d.lot_area)[1])
    ELSE None

\* the conservative estimate: 50% of the lot area, if there is a usable one
EstimatedGfa(d) ==
    IF "lot_area" \in DOMAIN d /\ TruthyField(d.lot_area) /\ ToNumber(d.lot_area) # None
    THEN Val(5 * ToNumber(d.lot_area)[1])
    ELSE None

GfaCheck(d, standards) ==
    LET supplied == SuppliedGfa(d)
        estimate == IF supplied = None THEN EstimatedGfa(d) ELSE None
        gfa == IF supplied # None THEN supplied ELSE estimate
        caveat == IF supplied = None /\ estimate # None
                  THEN <<"Gross floor area not supplied - using conservative estimate of 50% of lot area">>
                  ELSE << >>
    IN  IF gfa = None
        THEN [ok |-> FALSE, gfa |-> None, reasons |-> <<"Gross floor area unknown">>]
        ELSE [ok |-> gfa[1] <= standards.max_gross_floor_area_sqm,
              gfa |-> gfa,
              reasons |-> caveat \o
                  <<IF gfa[1] <= standards.max_gross_floor_area_sqm
                    THEN "Gross floor area within allowed limit"
                    ELSE "Gross floor area exceeds allowed limit">>]

PersonsCheck(d, standards) ==
    LET persons == Get(d, "persons_accommodated", None)
        p == ToNumber(persons)
    IN  CASE persons = None ->
               [ok |-> FALSE, reasons |-> <<"Persons accommodated not provided">>]
          [] persons # None /\ p = None ->
               [ok |-> FALSE, reasons |-> <<"Persons accommodated value invalid">>]
          [] OTHER ->
               [ok |-> p[1] <= standards.max_persons_accommodated,
                reasons |-> <<IF p[1] <= standards.max_persons_accommodated
                              THEN "Persons accommodated within allowed maximum"
                              ELSE "Persons accommodated exceeds allowed maximum">>]

\* `d.get('bedrooms') or d.get('num_bedrooms')`
BedroomsValue(d) ==
    IF TruthyField(Get(d, "bedrooms", None))
    THEN d.bedrooms
    ELSE Get(d, "num_bedrooms", None)

BedroomsCheck(d, standards) ==
    LET bedrooms == BedroomsValue(d)
        b == ToNumber(bedrooms)
    IN  CASE bedrooms = None ->
               [ok |-> FALSE, reasons |-> <<"Number of bedrooms not provided">>]
          [] bedrooms # None /\ b = None ->
               [ok |-> FALSE, reasons |-> <<"Bedrooms value invalid">>]
          [] OTHER ->
               [ok |-> b[1] <= standards.max_bedrooms,
                reasons |-> <<IF b[1] <= standards.max_bedrooms
                              THEN "Bedrooms within allowed maximum"
                              ELSE "Bedrooms exceeds allowed maximum">>]

\* `d.get('zone_type') or d.get('zone')`
ZoneValue(d) ==
    IF TruthyStr(Get(d, "zone_type", None)) THEN d.zone_type ELSE Get(d, "zone", None)

\* the permit note ("" when no zone is known) and the reason that goes with it
ZoneNote(d) ==
    LET zone == ZoneValue(d)
    IN  IF TruthyStr(zone)
        THEN [permit_note |-> zone[1], reasons |-> <<"Site located in zone">>]
        ELSE [permit_note |-> "", reasons |-> <<"Zone information not available">>]

\* the checker with the bedroom check left out of the overall flag
evaluate_rooming_house_compliance_two_checks(d) ==
    LET standards == get_standards
        g == GfaCheck(d, standards)
        p == PersonsCheck(d, standards)
        b == BedroomsCheck(d, standards)
        z == ZoneNote(d)
    IN  [raised |-> FALSE,
         checks |-> [gross_floor_area_ok |-> g.ok, persons_ok |-> p.ok,
                     bedrooms_ok |-> b.ok],
         overall_compliant |-> g.ok /\ p.ok,
         reasons |-> g.reasons \o p.reasons \o b.reasons \o z.reasons,
         permit_note |-> z.permit_note]

evaluate_rooming_house_compliance(d) ==
    LET standards == get_standards
        g == GfaCheck(d, standards)
        p == PersonsCheck(d, standards)
        b == BedroomsCheck(d, standards)
        z == ZoneNote(d)
    IN  [raised |-> FALSE,
         checks |-> [gross_floor_area_ok |-> g.ok, persons_ok |-> p.ok,
                     bedrooms_ok |-> b.ok],
         overall_compliant |-> g.ok /\ p.ok /\ b.ok,
         reasons |-> g.reasons \o p.reasons \o b.reasons \o z.reasons,
         permit_note |-> z.permit_note]

----------------------------------------------------------------------------
(* Site suitability for the standard design,                               *)
(* src/standard_rooming_house_design.py.  Each reason is the name of the   *)
(* sentence the code emits.                                                *)

\* the two entries of the design dict the suitability check reads, in sqm
get_standard_design == [footprint_sqm |-> 137, gross_floor_area_sqm |-> 274]

\* any(z.lower() in zone.lower() for z in compliant_zones)
ZoneIn(zone, compliant_zones) ==
    LET NamesIn(name) ==
            CASE name \in {"General Residential Zone", "GENERAL RESIDENTIAL ZONE - SCHEDULE 1"}
                     -> {"General Residential", "General Residential Zone"}
              [] name = "General Residential" -> {"General Residential"}
              [] name = "Residential Growth Zone" -> {"Residential Growth Zone"}
              [] name = "Neighbourhood Residential Zone"
                     -> {"Neighbourhood Residential", "Neighbourhood Residential Zone"}
              [] name \in {"Mixed Use", "Mixed Use Zone"} -> {"Mixed Use"}
              [] OTHER -> {}
    IN  NamesIn(zone) \cap compliant_zones # {}

\* None where a number or a string is needed raises TypeError / AttributeError
SuitabilityRaises(d) ==
    \/ Get(d, "lot_area", Val(0)) = None
    \/ Get(d, "zone_type", Val("Unknown")) = None
    \/ Get(d, "dist_transport", Val(9999)) = None

\* lot_area in 1/100 sqm; required_area is int(footprint * 1.25) sqm
evaluate_site_suitability_for_design(d) ==
    LET design == get_standard_design
        lot_area == Get(d, "lot_area", Val(0))[1]
        required_area == ((design.footprint_sqm * 125) \div 100) * 100
        lot_ok == lot_area >= required_area
        zone == Get(d, "zone_type", Val("Unknown"))[1]
        zone_ok == ZoneIn(zone, {"General Residential Zone", "Residential Growth Zone",
                                 "Mixed Use", "Neighbourhood Residential Zone"})
        transport == Get(d, "dist_transport", Val(9999))[1]
        transport_ok == transport <= 800
    IN  IF SuitabilityRaises(d) THEN [raised |-> TRUE]
        ELSE [raised |-> FALSE,
              suitability_checks |->
                  [lot_area_sufficient |-> lot_ok, zone_suitable |-> zone_ok,
                   transport_compliant |-> transport_ok, planning_noted |-> TRUE,
                   title_check_required |-> TRUE],
              \* only the lot and the zone check clear the flag
              all_checks_pass |-> lot_ok /\ zone_ok,
              reasons |->
                  <<IF lot_ok THEN "Lot area sufficient for design placement"
                    ELSE "Lot area may be insufficient for design footprint",
                    IF zone_ok THEN "Zone suitable for rooming house development"
                    ELSE "Zone may restrict residential development",
                    IF transport_ok THEN "Transport within catchment - good accessibility"
                    ELSE "Distance to transport exceeds preferred 800m catchment",
                    "Full title search required">>,
              permit_requirement |-> [required |-> design.gross_floor_area_sqm > 300]]

----------------------------------------------------------------------------
(* Address search: auto_assess_from_address (src/core/data_fetcher.py) and *)
(* the search handler of src/app.py.                                       *)
(*                                                                         *)
(* Latitude and longitude are in 1/10000 degree.  A flag that Python holds *)
(* as True or as 1 is TRUE: True == 1, and sum() and truth tests treat     *)
(* them alike.  The services record has the fields                         *)
(*   address, coords (None when geocoding fails, else Val(<<lat, lon>>)),   *)
(*   transit (the transit POIs), lot_data (what fetch_victorian_lot_data   *)
(*   returns), planning_data (what get_planning_data returns), deep_link   *)
(*   (the search was triggered by the address query parameter).            *)

\* dict.update
Update(d, e) == [k \in (DOMAIN d) \cup (DOMAIN e) |-> IF k \in DOMAIN e THEN e[k] ELSE d[k]]

\* d[k] = v
Put(d, k, v) == Update(d, k :> v)

\* round((num / den) ** 0.5): the whole number nearest to the square root
RoundSqrt(num, den) ==
    CHOOSE w \in 0..1000 :
        /\ w = 0 \/ (2 * w - 1) * (2 * w - 1) * den <= 4 * num
        /\ 4 * num < (2 * w + 1) * (2 * w + 1) * den

\* a digit followed by a letter, as in 146A
_has_numeric_alpha_address_suffix(address) == address \in {"146A Smith St"}

\* lat, lon in 1/10000 degree; distance_km = ((dlat^2 + dlon^2) ** 0.5) * 111
_estimate_by_location_tier(lat, lon) ==
    LET dlat == lat + 378136
        dlon == lon - 1449631
        d2 == dlat * dlat + dlon * dlon
        \* distance_km < 5 and < 15: d2 * 111^2 < km^2 * 10^8, in 32-bit steps
        tier == IF d2 <= 202905 THEN [typical_area |-> 52000, ratio |-> 16]
                ELSE IF d2 <= 1826150 THEN [typical_area |-> 70000, ratio |-> 17]
                ELSE [typical_area |-> 95000, ratio |-> 18]
    IN  [lot_width |-> Val(10 * RoundSqrt(tier.typical_area * 10, tier.ratio)),
         lot_depth |-> Val(10 * RoundSqrt(tier.typical_area * tier.ratio, 10)),
         lot_area |-> Val(tier.typical_area),
         land_estimate_method |-> Val("location-based")]

estimate_lot_dimensions(address, lat, lon) ==
    LET estimate == _estimate_by_location_tier(lat, lon)
    IN  IF _has_numeric_alpha_address_suffix(address) /\ estimate.lot_area[1] > 65000
        THEN [lot_width |-> Val(10 * RoundSqrt(50000 * 10, 17)),
              lot_depth |-> Val(10 * RoundSqrt(50000 * 17, 10)),
              lot_area |-> Val(50000),
              land_estimate_method |-> Val("subdivision-adjusted")]
        ELSE estimate

\* the regulatory checker reads numbers or strings: the record with its four
\* size fields as numbers
RegulatoryView(d) ==
    [k \in DOMAIN d |->
        IF k \in {"gross_floor_area", "lot_area", "persons_accommodated", "bedrooms"}
        THEN PyNum(d[k][1]) ELSE d[k]]

\* The fresh path of auto_assess_from_address, called with coordinates.  A
\* cache hit returns a record an earlier call stored, with the same keys.
\* [raised |-> TRUE] when `zone.lower()` meets a zone_type of None.
auto_assess_from_address(s) ==
    LET lat == s.coords[1][1]
        lon == s.coords[1][2]
        poi_summary == [transit |-> Val(s.transit), schools |-> Val(<< >>),
                        parks |-> Val(<< >>), shops |-> Val(<< >>), heritage |-> Val(<< >>)]
        nearest_transit_m ==
            IF s.transit # << >>
            THEN Val(SetMin({s.transit[i].distance_m[1] : i \in DOMAIN s.transit}))
            ELSE None
        auto0 == [address |-> Val(s.address), latitude |-> Val(lat), longitude |-> Val(lon),
                  amenities_summary |-> Val(poi_summary),
                  dist_transport |-> IF nearest_transit_m # None THEN nearest_transit_m
                                     ELSE Val(9999),
                  nearest_activity_centre |-> None]
        \* 566-568: no lot width yet, estimate the dimensions
        Estimated(auto) ==
            IF FloatOr0(Get(auto, "lot_width", None)) = 0
            THEN Update(auto, estimate_lot_dimensions(s.address, lat, lon))
            ELSE auto
        \* 571-582: an area without a width or a depth, infer them
        Inferred(auto) ==
            LET no_width == FloatOr0(Get(auto, "lot_width", None)) = 0
                no_depth == FloatOr0(Get(auto, "lot_depth", None)) = 0
                area == FloatOr0(Get(auto, "lot_area", None))
                inferred ==
                    (IF no_width THEN [lot_width |-> Val(10 * RoundSqrt(area * 10, 17))]
                     ELSE << >>)
                    @@ (IF no_depth THEN [lot_depth |-> Val(10 * RoundSqrt(area * 17, 10))]
                        ELSE << >>)
            IN  IF area # 0 /\ (no_width \/ no_depth) THEN Update(auto, inferred) ELSE auto
        \* 585-590: the fallback for a subdivided address
        SanityChecked(auto) ==
            IF /\ _has_numeric_alpha_address_suffix(s.address)
               /\ Get(auto, "lot_area", Val(0))[1] > 70000
               /\ OrEmpty(Get(auto, "lot_area_references", None)) = << >>
            THEN Update(auto, [lot_area |-> Val(50000), lot_width |-> Val(1710),
                               lot_depth |-> Val(2920),
                               lot_area_source |-> Val("subdivision_sanity_fallback")])
            ELSE auto
        \* 594-597: the design values
        Locked(auto) ==
            Update(auto, [design_locked |-> Val("UR Happy Home Standard Rooming House Design v1.0"),
                          bedrooms |-> Val(5), gross_floor_area |-> Val(27400),
                          persons_accommodated |-> Val(5)])
        \* 600-611: the two evaluations
        Evaluated(auto) ==
            Put(auto, "regulatory_findings",
                Val(evaluate_rooming_house_compliance(RegulatoryView(auto))))
        Suitability(auto) ==
            Put(auto, "design_suitability", Val(evaluate_site_suitability_for_design(auto)))
        \* 614-636: the scoring fields
        Flagged(auto) ==
            Update(auto,
                [is_transport_compliant |-> Val(auto.dist_transport[1] <= 800),
                 is_preferred_zone |->
                     Val(ZoneIn(Get(auto, "zone_type", Val(""))[1],
                                {"General Residential", "Residential Growth Zone",
                                 "Neighbourhood Residential", "Mixed Use"})),
                 is_width_compliant |-> Val(Get(auto, "lot_width", Val(0))[1] >= 1200),
                 is_area_compliant |-> Val(Get(auto, "lot_area", Val(0))[1] >= 30000),
                 check_heating |-> Val(TRUE), check_windows |-> Val(TRUE),
                 check_energy |-> Val(TRUE)])
        Finished(auto) ==
            IF Get(auto, "zone_type", Val("")) = None THEN [raised |-> TRUE]
            ELSE [raised |-> FALSE, value |-> Flagged(auto)]
    IN  Finished(Suitability(Evaluated(Locked(SanityChecked(Inferred(Estimated(
            Update(auto0, s.lot_data))))))))

\* dict.setdefault-like steps of the handler: `if k not in d: d[k] = v`
Default(d, k, v) == IF k \in DOMAIN d THEN d ELSE Put(d, k, v)

\* `if k not in d or d[k] == 0: d[k] = v`
DefaultIfZero(d, k, v) == IF k \notin DOMAIN d \/ d[k] = Val(0) THEN Put(d, k, v) ELSE d

\* the constraints list of the handler; each entry is the name of a sentence
IdentifiedConstraints(d) ==
    LET reg == Get(d, "regulatory_findings", None)
        constraints ==
            (IF Truthy(Get(d, "has_overlay", None))
             THEN <<"Planning overlay present - requires additional approval">> ELSE << >>)
            \o (IF Get(d, "dist_transport", Val(0))[1] > 800
                THEN <<"Distance to nearest transport exceeds catchment">> ELSE << >>)
            \o (IF Get(d, "lot_area", Val(0))[1] < 31600
                THEN <<"Lot area below minimum 316sqm requirement">> ELSE << >>)
            \o (IF reg = None THEN << >>
                ELSE IF ~Get(reg[1], "overall_compliant", TRUE)
                THEN <<"Does NOT meet rooming-house minimum standards:">> \o reg[1].reasons
                ELSE <<"Meets rooming-house minimum standards (preliminary check).">>)
    IN  IF constraints # << >> THEN constraints
        ELSE <<"No significant constraints identified">>

\* the recommendations list of the handler
Recommendations(d) ==
    LET reg == Get(d, "regulatory_findings", None)
    IN  (IF reg # None /\ ~Get(reg[1], "overall_compliant", TRUE)
         THEN <<"Review rooming-house minimum standards">> ELSE << >>)
        \o <<"Conduct legal due diligence including title search",
             "Obtain builder quotes for estimated construction costs",
             "Engage town planning consultant for design review",
             "Confirm council development approval pathway">>
        \o get_blueprint_setback_recommendations(Get(d, "lot_depth", Val(0)),
                                                 Get(d, "project_type", None), None)

\* HandlerDefaults with a flat site as the default slope
HandlerDefaults_flat_slope(d) ==
    LET ZoneDefault(e) == IF ~TruthyStr(Get(e, "zone_type", None))
                          THEN Put(e, "zone_type", Val("General Residential Zone")) ELSE e
        AreaDefault(e) ==
            DefaultIfZero(e, "lot_area",
                          Val(Max2(31600, (e.lot_width[1] * e.lot_depth[1]) \div 100)))
        d3 == DefaultIfZero(DefaultIfZero(ZoneDefault(d), "lot_width", Val(1244)),
                            "lot_depth", Val(2560))
        d5 == Default(AreaDefault(d3), "has_overlay", Val(FALSE))
        d6 == Default(d5, "slope", Val("Flat"))
        d7 == Default(Default(Default(d6, "check_heating", Val(TRUE)),
                              "check_windows", Val(TRUE)), "check_energy", Val(TRUE))
    IN  Default(d7, "amenities_summary",
                Val([transit |-> Val(<< >>), schools |-> Val(<< >>), parks |-> Val(<< >>),
                     shops |-> Val(<< >>), heritage |-> Val(<< >>)]))

\* the default values the handler fills in after scoring
HandlerDefaults(d) ==
    LET ZoneDefault(e) == IF ~TruthyStr(Get(e, "zone_type", None))
                          THEN Put(e, "zone_type", Val("General Residential Zone")) ELSE e
        AreaDefault(e) ==
            DefaultIfZero(e, "lot_area",
                          Val(Max2(31600, (e.lot_width[1] * e.lot_depth[1]) \div 100)))
        d3 == DefaultIfZero(DefaultIfZero(ZoneDefault(d), "lot_width", Val(1244)),
                            "lot_depth", Val(2560))
        d5 == Default(AreaDefault(d3), "has_overlay", Val(FALSE))
        d6 == Default(d5, "slope", Val("Moderate"))
        d7 == Default(Default(Default(d6, "check_heating", Val(TRUE)),
                              "check_windows", Val(TRUE)), "check_energy", Val(TRUE))
    IN  Default(d7, "amenities_summary",
                Val([transit |-> Val(<< >>), schools |-> Val(<< >>), parks |-> Val(<< >>),
                     shops |-> Val(<< >>), heritage |-> Val(<< >>)]))

\* The address-search handler, from the geocoded address to the record it
\* leaves in st.session_state.assessment_data.  [stored |-> FALSE] when the
\* address cannot be geocoded or auto_assess_from_address raises: the session
\* record is left as it was.
search_handler(s, selected_project_type) ==
    LET planning_data == s.planning_data
        \* 397-402: the project type and the lot of a deep link
        Typed(d) ==
            Update(d, [project_type |-> Val(selected_project_type)]
                      @@ (IF s.deep_link
                          THEN [lot_width |-> Val(1244), lot_depth |-> Val(2560),
                                lot_area |-> Val(31600)]
                          ELSE << >>))
        \* 404-422: the planning lookup
        Planned(d) ==
            Update(d,
                [vicplan_zone |-> Get(planning_data, "Planning Zone", Val("Unknown")),
                 vicplan_overlays |-> Get(planning_data, "Overlays", Val(<< >>)),
                 vpp_links |-> Get(planning_data, "vpp_links", Val(<< >>)),
                 planning_risk_checks |-> Get(planning_data, "risk_checks", Val(<< >>)),
                 aboriginal_cultural_heritage_sensitivity |->
                     Get(planning_data, "aboriginal_cultural_heritage_sensitivity", Val(FALSE)),
                 special_building_overlay_flood_risk |->
                     Get(planning_data, "special_building_overlay_flood_risk", Val(FALSE))])
        Zoned(d) ==
            IF TruthyStr(d.vicplan_zone) /\ d.vicplan_zone # Val("Unknown")
            THEN Put(d, "zone_type", d.vicplan_zone) ELSE d
        Overlaid(d) ==
            IF d.vicplan_overlays[1] # << >> THEN Put(d, "has_overlay", Val(TRUE)) ELSE d
        \* 427-442: the score, the verdict and the breakdown of the record
        Scored(d, score_total, viability, breakdown) ==
            Update(d, [raw_score |-> Val(score_total),
                       viability_status |-> Val(viability.status),
                       viability_color |-> Val(viability.color),
                       zone_score |-> Val(breakdown.zone.weighted_score),
                       transport_score |-> Val(breakdown.transport.weighted_score),
                       physical_score |-> Val(breakdown.physical.weighted_score),
                       compliance_score |-> Val(breakdown.compliance.weighted_score)])
        \* 474-486: design validation and revenue
        Validated(d, urhh_design_validation) ==
            Update(d, [urhh_design_validation |-> Val(urhh_design_validation),
                       setback_requirements |->
                           Val(urhh_design_validation.setback_requirements)])
        Designed(d) ==
            Validated(d, validate_urhh_design(Get(d, "lot_width", Val(0)),
                                              Get(d, "lot_depth", Val(0)),
                                              Get(d, "lot_area", Val(0)),
                                              Get(d, "project_type", None), Val(d)))
        Revenue(d) == Put(d, "revenue_potential", Val(estimate_revenue_potential(d)))
        \* 488-526: constraints and recommendations
        Constrained(d) == Default(d, "identified_constraints", Val(IdentifiedConstraints(d)))
        Recommended(d) == Default(d, "recommendations", Val(Recommendations(d)))
        \* the record is in the session from line 424 on: an exception of the
        \* scorers leaves it there as it was before scoring
        Completed(d, scored, breakdown) ==
            IF scored.raised \/ breakdown.raised THEN [stored |-> TRUE, value |-> d]
            ELSE [stored |-> TRUE,
                  value |-> Recommended(Constrained(Revenue(Designed(HandlerDefaults(
                                Scored(d, scored.total,
                                       get_viability_status_from_score(scored.total),
                                       breakdown))))))]
        Assessed(d) == Completed(d, calculate_weighted_score(d), detailed_score_breakdown(d))
        Handled(auto) ==
            IF s.coords = None \/ auto.raised THEN [stored |-> FALSE]
            ELSE Assessed(Overlaid(Zoned(Planned(Typed(auto.value)))))
    IN  Handled(auto_assess_from_address(s))

----------------------------------------------------------------------------
(* The assessments table, src/core/database.py.  The timestamp columns are *)
(* left out; SQLite stores True as 1, which the flag convention above      *)
(* already identifies.                                                     *)

\* the keys save_assessment reads with assessment_data[...], in order
MandatoryKeys ==
    <<"address", "latitude", "longitude", "zone_type", "has_overlay", "dist_transport",
      "lot_width", "lot_area", "slope", "has_covenant", "check_heating", "check_windows",
      "check_energy", "viability_status", "viability_color", "raw_score">>

\* the first mandatory key the record lacks (KeyError), or None
MissingKey(d) ==
    LET missing == {i \in DOMAIN MandatoryKeys : MandatoryKeys[i] \notin DOMAIN d}
    IN  IF missing = {} THEN None ELSE Val(MandatoryKeys[SetMin(missing)])

\* save_assessment on the table `rows`: the insert raises KeyError on a
\* missing mandatory key and IntegrityError on a None in a NOT NULL column;
\* otherwise it appends one row and returns its id
save_assessment(rows, d) ==
    IF MissingKey(d) # None
    THEN [raised |-> TRUE, error |-> "KeyError", key |-> MissingKey(d)[1], rows |-> rows]
    ELSE IF \E i \in DOMAIN MandatoryKeys : d[MandatoryKeys[i]] = None
    THEN [raised |-> TRUE, error |-> "IntegrityError", key |-> "", rows |-> rows]
    ELSE LET row == [k \in {MandatoryKeys[i] : i \in DOMAIN MandatoryKeys} |-> d[k]]
                      @@ [id |-> Val(Len(rows) + 1),
                          project_type |-> Get(d, "project_type", Val("Standard Rooming House")),
                          assessor_notes |-> Get(d, "assessor_notes", Val("")),
                          custom_weights |-> Get(d, "custom_weights", None)]
         IN  [raised |-> FALSE, lastrowid |-> Len(rows) + 1, rows |-> Append(rows, row)]

\* get_assessment: dict(row) of the row with this id, or None
get_assessment(rows, assessment_id) ==
    IF assessment_id \in DOMAIN rows THEN Val(rows[assessment_id]) ELSE None

----------------------------------------------------------------------------
(* Authentication, src/simple_auth.py and src/app.py:73-99 *)

TEAM_CREDENTIALS ==
    [e \in {"team1@urhappyhome.com", "assessor1@urhappyhome.com", "assessor2@urhappyhome.com",
            "analyst@urhappyhome.com", "admin@urhappyhome.com"} |->
        CASE e = "team1@urhappyhome.com" -> [password |-> "urh_team_1", name |-> "Team Lead"]
          [] e = "assessor1@urhappyhome.com" -> [password |-> "urh_assessor_1", name |-> "Assessor 1"]
          [] e = "assessor2@urhappyhome.com" -> [password |-> "urh_assessor_2", name |-> "Assessor 2"]
          [] e = "analyst@urhappyhome.com" -> [password |-> "urh_analyst_1", name |-> "Data Analyst"]
          [] e = "admin@urhappyhome.com" -> [password |-> "urh_admin_1", name |-> "Administrator"]]

\* Returns None or Val(user)
verify_credentials(email, password) ==
    IF email \in DOMAIN TEAM_CREDENTIALS /\ TEAM_CREDENTIALS[email].password = password
    THEN Val([email |-> email, name |-> TEAM_CREDENTIALS[email].name])
    ELSE None

\* str(auth_bypass_param).strip().lower() == "true", on the values of BypassParams
auth_bypass_enabled(auth_bypass_param) == auth_bypass_param \in {"true", " TRUE "}

\* user is None or Val(dict); `str(user.get('email', '')).strip().lower()`
\* leaves the emails of the model as they are
is_admin_user(session) ==
    LET user == Get(session, "user", Val(<< >>))
    IN  user # None /\ Get(user[1], "email", "") = "admin@urhappyhome.com"

----------------------------------------------------------------------------
(* Inputs *)

\* longest hospital list of an amenities summary
MaxHospitals == 2

HospitalLists ==
    LET HospitalItems == {[distance_m |-> dm] : dm \in {None, Val(5000), Val(5001)}}
    IN  UNION {[1..n -> HospitalItems] : n \in 0..MaxHospitals}

\* the record carries no amenities summary, or one with a hospital list
AmenityFields ==
    {<< >>} \cup {[amenities_summary |-> Val([hospitals |-> Val(hs)])] : hs \in HospitalLists}

\* lots of the scored records: no dimensions, the spec's Scenario A and C
\* lots, the app's default lot, and a lot in each other project's target
SiteFields ==
    {[lot_width |-> Val(0), lot_depth |-> Val(0), lot_area |-> Val(0), slope |-> Val("Steep")],
     [lot_width |-> Val(1500), lot_depth |-> Val(2600), lot_area |-> Val(33000), slope |-> Val("Flat")],
     [lot_width |-> Val(1200), lot_depth |-> Val(2500), lot_area |-> Val(31000), slope |-> Val("Moderate")],
     [lot_width |-> Val(1244), lot_depth |-> Val(2560), lot_area |-> Val(31600), slope |-> Val("Moderate")],
     [lot_width |-> Val(1300), lot_depth |-> Val(2800), lot_area |-> Val(40000), slope |-> Val("Flat")],
     [lot_width |-> Val(1500), lot_depth |-> Val(3000), lot_area |-> Val(70000), slope |-> Val("Flat")]}

\* dict union of two dicts with disjoint keys
Merge(f, g) == [k \in (DOMAIN f) \cup (DOMAIN g) |-> IF k \in DOMAIN f THEN f[k] ELSE g[k]]

PlanningFields ==
    LET TransportDistances == {400, 401, 600, 601, 800, 801, 1000, 1001}
    IN  [project_type : {Val(pt) : pt \in ProjectTypes},
         has_overlay : {Val(b) : b \in BOOLEAN},
         has_covenant : {Val(b) : b \in BOOLEAN},
         is_preferred_zone : {Val(b) : b \in BOOLEAN},
         dist_transport : {Val(x) : x \in TransportDistances},
         check_heating : {Val(b) : b \in BOOLEAN},
         check_windows : {Val(b) : b \in BOOLEAN},
         check_energy : {Val(b) : b \in BOOLEAN}]

\* every combination of planning fields and lots, with no hospital known, one
\* within 5 km, or one beyond it
CrossRecords ==
    {Merge(Merge(p, site), am) :
        p \in PlanningFields, site \in SiteFields,
        am \in {<< >>} \cup {[amenities_summary |-> Val([hospitals |-> Val(<<[distance_m |-> dm]>>)])] :
                                dm \in {Val(5000), Val(5001)}}}

\* every hospital list, on the Scenario A site at each distance and project type
HospitalRecords ==
    {Merge(Merge(p, site), am) :
        p \in {q \in PlanningFields :
                 /\ q.has_overlay = Val(FALSE) /\ q.has_covenant = Val(FALSE)
                 /\ q.is_preferred_zone = Val(TRUE)
                 /\ q.check_heating = Val(TRUE) /\ q.check_windows = Val(TRUE)
                 /\ q.check_energy = Val(TRUE)},
        site \in {q \in SiteFields : q.lot_width = Val(1500) /\ q.lot_depth = Val(2600)},
        am \in AmenityFields}

\* the assessment records the scorer is run on
Records == CrossRecords \cup HospitalRecords

Areas == {0, 23999, 24000, 24999, 25000, 27999, 28000, 29999, 30000, 31599, 31600,
          33999, 34000, 34600, 34601, 42000, 42001, 42600, 42601, 50000, 50001,
          55999, 56000, 60999, 61000, 64999, 65000, 90000, 90001, 98000, 98001}

PhysicalLots ==
    LET Depths == {0, 2199, 2200, 2399, 2400, 2439, 2440, 2559, 2560, 2639, 2640, 2760, 2761,
                   2799, 2800, 3000, 3001, 3240, 3241, 4000, 4001, 4240, 4241}
        \* band edges of the three threshold tables, one centimetre either side
        Widths == {0, 1149, 1150, 1199, 1200, 1243, 1244, 1299, 1300, 1349, 1350, 1399, 1400, 1500}
        Slopes == {"Flat", "Moderate", "Steep"}
    IN  [lot_width : {Val(w) : w \in Widths}, lot_depth : {Val(x) : x \in Depths},
         lot_area : {Val(a) : a \in Areas}, slope : {Val(sl) : sl \in Slopes},
         project_type : {Val(pt) : pt \in ProjectTypes}]

DesignDepths == {2500, 2559, 2560, 2799, 2800, 3001, 3759, 3760, 4000, 4001, 4059, 4060,
                 4159, 4160, 4699, 4700, 5399, 5400}

DesignLots ==
    LET DesignAreas == {31000, 31599, 31600, 33999, 34000, 64999, 65000}
        \* edges of the validator's rules and of the setback totals
        DesignWidths == {1200, 1243, 1244, 1399, 1400, 1500}
    IN  [lot_width : {Val(w) : w \in DesignWidths}, lot_depth : {Val(x) : x \in DesignDepths},
         lot_area : {Val(a) : a \in DesignAreas}, slope : {Val("Flat")},
         project_type : {Val(pt) : pt \in ProjectTypes}]

\* a dict with the key k for each value of S, and the dict without the key
Optional(k, S) == {<< >>} \cup {(k :> v) : v \in S}

\* the zone fields of a regulatory record: any of them absent, an empty or a
\* named zone_type, the legacy `zone` key, an overlay list
ZoneFields ==
    {Merge(Merge(zt, z), ov) :
        zt \in Optional("zone_type", {Val(""), Val("General Residential Zone")}),
        z \in Optional("zone", {Val("Industrial 1 Zone")}),
        ov \in Optional("overlays", {Val(<<"Heritage Overlay">>)})}

\* the records the regulatory checker is run on
RegulatoryRecords ==
    LET \* the size fields: each absent, None, zero, at and just past its limit, or a
        \* string that is not a number
        SizeFields ==
            {Merge(Merge(Merge(Merge(g, l), p), b), nb) :
                g \in Optional("gross_floor_area",
                               {None, PyNum(0), PyNum(28000), PyNum(30000), PyNum(30001), PyText}),
                l \in Optional("lot_area", {PyNum(0), PyNum(60000), PyNum(60001), PyText}),
                p \in Optional("persons_accommodated",
                               {PyNum(0), PyNum(5), PyNum(12), PyNum(13), PyText}),
                b \in Optional("bedrooms", {PyNum(0), PyNum(5), PyNum(8), PyNum(9), PyText}),
                nb \in Optional("num_bedrooms", {PyNum(0), PyNum(9)})}
    IN  {Merge(s, z) : s \in SizeFields, z \in ZoneFields}

\* most fields of a record that are absent or None at the same time
MaxMissing == 2

\* complete records: the Scenario A site for each project type, a hospital 5 km away
CompleteRecords ==
    {r \in CrossRecords :
        /\ r.has_overlay = Val(FALSE) /\ r.has_covenant = Val(FALSE)
        /\ r.is_preferred_zone = Val(TRUE) /\ r.dist_transport = Val(400)
        /\ r.check_heating = Val(TRUE) /\ r.check_windows = Val(TRUE)
        /\ r.check_energy = Val(TRUE)
        /\ r.lot_width = Val(1500) /\ r.lot_depth = Val(2600)
        /\ "amenities_summary" \in DOMAIN r
        /\ r.amenities_summary[1].hospitals[1][1].distance_m = Val(5000)}

\* the record r without the keys of absent and with None under the keys of none
Without(r, absent, none) ==
    [k \in (DOMAIN r) \ absent |-> IF k \in none THEN None ELSE r[k]]

\* records with up to MaxMissing fields absent or None, the diagnostics
\* record and the empty record
MissingRecords ==
    LET \* the fields a record may lack
        OptionalFields ==
            {"project_type", "dist_transport", "lot_width", "lot_depth", "lot_area", "slope",
             "has_overlay", "has_covenant", "check_heating", "check_windows", "check_energy",
             "amenities_summary"}
        \* the record of the diagnostics script, which has no project_type, lot_depth,
        \* has_overlay or amenities_summary
        DiagnosticsRecord ==
            [is_preferred_zone |-> Val(TRUE), is_transport_compliant |-> Val(TRUE),
             lot_width |-> Val(1500), lot_area |-> Val(75000), slope |-> Val("Flat"),
             has_covenant |-> Val(FALSE), check_heating |-> Val(TRUE),
             check_windows |-> Val(TRUE), check_energy |-> Val(TRUE),
             dist_transport |-> Val(500)]
    IN  {Without(r, missing \ none, none) :
            r \in CompleteRecords,
            <<missing, none>> \in
                UNION {{<<m, n>> : n \in SUBSET m} :
                          m \in {s \in SUBSET OptionalFields : Cardinality(s) <= MaxMissing}}}
        \cup {DiagnosticsRecord, << >>}

DistanceRecords ==
    LET \* transport distances of the revenue bands, zero and a missing distance included
        RevenueDistances == {0, 400, 401, 800, 801, 1000, 1200, 1201}
    IN  {Merge(Without(r, {"dist_transport"}, {}), dt) :
            r \in CompleteRecords,
            dt \in Optional("dist_transport", {Val(x) : x \in RevenueDistances})}

\* the records a whole assessment is run on
AssessmentRecords ==
    LET \* a lot that fits every project type but for its area, under each raw project type
        RawTypeRecords ==
            LET \* project types as a caller may pass them: None, empty, blank, padded,
                \* unknown, canonical
                RawProjectTypes ==
                    {None, Val(""), Val(" "), Val("Townhouse"),
                     Val(" Standard Rooming House "), Val(" SDA/NDIS Unit "), Val(" Standard Dual Occupancy ")}
                    \cup {Val(pt) : pt \in ProjectTypes}
            IN  {[project_type |-> pt, lot_width |-> Val(1500), lot_depth |-> Val(3000),
                  lot_area |-> Val(a), slope |-> Val("Flat"),
                  has_overlay |-> Val(FALSE), has_covenant |-> Val(FALSE),
                  is_preferred_zone |-> Val(TRUE), dist_transport |-> Val(400),
                  check_heating |-> Val(TRUE), check_windows |-> Val(TRUE), check_energy |-> Val(TRUE),
                  amenities_summary |-> Val([hospitals |-> Val(<<[distance_m |-> Val(5000)]>>)])] :
                    pt \in RawProjectTypes, a \in {31600, 34000, 64999, 65000}}
    IN  MissingRecords \cup RawTypeRecords \cup HospitalRecords \cup DistanceRecords

\* the arguments the assessment passes to the validator: the record's own fields
LotOf(d) ==
    [lot_width |-> Get(d, "lot_width", Val(0)), lot_depth |-> Get(d, "lot_depth", Val(0)),
     lot_area |-> Get(d, "lot_area", Val(0)), slope |-> Get(d, "slope", None),
     project_type |-> Get(d, "project_type", None)]

\* most calls recorded in a session
MaxCalls == 3

\* the records of a session: two sites that differ in project type and
\* distance, assessed by the scoring engine, and a regulatory record
SessionSites ==
    {r \in DistanceRecords :
        \/ /\ r.project_type = Val(PROJECT_TYPE_ROOMING)
           /\ Get(r, "dist_transport", None) = Val(400)
        \/ /\ r.project_type = Val(PROJECT_TYPE_SDA)
           /\ Get(r, "dist_transport", None) = Val(801)}

SessionRegulatory ==
    {r \in RegulatoryRecords :
        /\ DOMAIN r = {"gross_floor_area", "persons_accommodated", "bedrooms", "zone_type"}
        /\ r.gross_floor_area = PyNum(28000)
        /\ r.persons_accommodated = PyNum(5)
        /\ r.bedrooms = PyNum(5)
        /\ r.zone_type = Val("General Residential Zone")}

SessionRecords == SessionSites \cup SessionRegulatory

Services ==
    LET \* get_planning_data: nothing found, a zone and no overlay, a zone and an overlay
        PlanningData ==
            {("Planning Zone" :> Val("Unknown")) @@ ("Overlays" :> Val(<< >>)),
             ("Planning Zone" :> Val("Neighbourhood Residential Zone")) @@ ("Overlays" :> Val(<< >>)),
             ("Planning Zone" :> Val("Mixed Use Zone")) @@ ("Overlays" :> Val(<<"Heritage Overlay">>))
                 @@ ("risk_checks" :> Val([special_building_overlay_flood_risk |-> FALSE]))}
        \* fetch_victorian_lot_data: no parcel, a parcel of area 0, a parcel with
        \* its dimensions, a parcel with an area and a width only; and no zone, a
        \* zone without a name, a preferred zone, another zone
        LotData ==
            {Merge(parcel, zone) :
                parcel \in {<< >>,
                            [lot_area |-> Val(0)],
                            [lot_area |-> Val(31600), lot_width |-> Val(1244), lot_depth |-> Val(2560),
                             lot_area_references |-> Val(<<"vicgis_parcel_wfs">>),
                             lot_area_source |-> Val("reconciled_authoritative")],
                            [lot_area |-> Val(50000), lot_width |-> Val(1500),
                             lot_area_references |-> Val(<<"vicgis_parcel_wfs">>),
                             lot_area_source |-> Val("reconciled_authoritative")]},
                zone \in {<< >>,
                          [zone_type |-> None, overlays |-> Val(<< >>)],
                          [zone_type |-> Val("General Residential Zone"), overlays |-> Val(<< >>)],
                          [zone_type |-> Val("Industrial 1 Zone"), overlays |-> Val(<< >>)]}}
        TransitLists ==
            {<< >>, <<[distance_m |-> Val(400)]>>,
             <<[distance_m |-> Val(1200)], [distance_m |-> Val(801)]>>}
        \* geocoding fails, or gives a point 1 km or 10 km from the CBD
        Coordinates == {None, Val(<<-378100, 1449700>>), Val(<<-378500, 1450500>>)}
        \* what the services answer for a searched address
        Addresses == {"12 Smith St", "146A Smith St"}
    IN  [address : Addresses, coords : Coordinates, transit : TransitLists, lot_data : LotData,
         planning_data : PlanningData, deep_link : BOOLEAN]

\* the session keys app.py sets on a run that gets past authentication
SessionDefaults(session) ==
    LET s1 == Default(session, "assessment_complete", Val(FALSE))
        s2 == Default(s1, "last_address", None)
        s3 == Default(s2, "last_coords", None)
        s4 == Default(s3, "search_triggered", Val(FALSE))
        s5 == Default(s4, "deep_link_applied_address", None)
    IN  Default(s5, "selected_project_type", Val("Standard Rooming House"))

\* most rows of the assessments table
MaxRows == 2

NoCall == [fn |-> "none"]

----------------------------------------------------------------------------
(* Operations *)

CalculateWeightedScore ==
    /\ assessment_data # None
    /\ LET r == calculate_weighted_score(assessment_data[1])
       IN  /\ result' = r @@ [fn |-> "calculate_weighted_score"]
           /\ score' = IF r.raised THEN None ELSE Val(r.total)
    /\ UNCHANGED <<assessment_data, lot, history, session_state, accepted, database, services>>

GetViabilityStatusFromScore ==
    /\ score # None
    /\ result' = get_viability_status_from_score(score[1])
                   @@ [fn |-> "get_viability_status_from_score", score |-> score[1]]
    /\ UNCHANGED <<assessment_data, lot, score, history, session_state, accepted, database, services>>

DetailedScoreBreakdown ==
    /\ assessment_data # None
    /\ result' = detailed_score_breakdown(assessment_data[1])
                   @@ [fn |-> "detailed_score_breakdown"]
    /\ UNCHANGED <<assessment_data, lot, score, history, session_state, accepted, database, services>>

CalculateProjectPhysicalScore ==
    /\ lot # None
    /\ LET a == lot[1]
       IN  result' = [fn |-> "_calculate_project_physical_score",
                      value |-> _calculate_project_physical_score(
                                    a.lot_width, a.lot_depth, a.lot_area, a.slope,
                                    a.project_type)]
    /\ UNCHANGED <<assessment_data, lot, score, history, session_state, accepted, database, services>>

ValidateUrhhDesign ==
    /\ lot # None
    /\ LET a == lot[1]
       IN  result' = validate_urhh_design(a.lot_width, a.lot_depth, a.lot_area,
                                          a.project_type, assessment_data)
                       @@ [fn |-> "validate_urhh_design"]
    /\ UNCHANGED <<assessment_data, lot, score, history, session_state, accepted, database, services>>

EvaluateRoomingHouseCompliance ==
    /\ assessment_data # None
    /\ result' = evaluate_rooming_house_compliance(assessment_data[1])
                   @@ [fn |-> "evaluate_rooming_house_compliance"]
    /\ UNCHANGED <<assessment_data, lot, score, history, session_state, accepted, database, services>>

EstimateRevenuePotential ==
    /\ assessment_data # None
    /\ result' = estimate_revenue_potential(assessment_data[1])
                   @@ [fn |-> "estimate_revenue_potential"]
    /\ UNCHANGED <<assessment_data, lot, score, history, session_state, accepted, database, services>>

EvaluateSiteSuitabilityForDesign ==
    /\ assessment_data # None
    /\ result' = evaluate_site_suitability_for_design(assessment_data[1])
                   @@ [fn |-> "evaluate_site_suitability_for_design"]
    /\ UNCHANGED <<assessment_data, lot, score, history, session_state, accepted, database, services>>

\* a call that also writes its output into the record it was given
SessionCall_storing(fn, out) ==
    /\ Len(history) < MaxCalls
    /\ result' = out @@ [fn |-> fn]
    /\ history' = Append(history, [fn |-> fn, arg |-> assessment_data[1], out |-> out])
    /\ assessment_data' = Val(Merge([last_output |-> Val(fn)], assessment_data[1]))
    /\ UNCHANGED <<lot, score, session_state, accepted, database, services>>

\* a call of an engine function on the current record of a session: the
\* output depends on the record only and nothing but the result is written
SessionCall(fn, out) ==
    /\ Len(history) < MaxCalls
    /\ result' = out @@ [fn |-> fn]
    /\ history' = Append(history, [fn |-> fn, arg |-> assessment_data[1], out |-> out])
    /\ UNCHANGED <<assessment_data, lot, score, session_state, accepted, database, services>>

SessionScore ==
    /\ assessment_data[1] \in SessionSites
    /\ SessionCall("calculate_weighted_score", calculate_weighted_score(assessment_data[1]))

SessionBreakdown ==
    /\ assessment_data[1] \in SessionSites
    /\ SessionCall("detailed_score_breakdown", detailed_score_breakdown(assessment_data[1]))

SessionValidate ==
    /\ assessment_data[1] \in SessionSites
    /\ SessionCall("validate_urhh_design",
                   validate_urhh_design(lot[1].lot_width, lot[1].lot_depth, lot[1].lot_area,
                                        lot[1].project_type, assessment_data))

SessionRevenue ==
    /\ assessment_data[1] \in SessionSites
    /\ SessionCall("estimate_revenue_potential",
                   estimate_revenue_potential(assessment_data[1]))

SessionRegulatoryCheck ==
    /\ assessment_data[1] \in SessionRegulatory
    /\ SessionCall("evaluate_rooming_house_compliance",
                   evaluate_rooming_house_compliance(assessment_data[1]))

\* the session moves on to another record
SwitchRecord ==
    /\ \E r \in SessionRecords :
           /\ Val(r) # assessment_data
           /\ assessment_data' = Val(r)
           /\ lot' = IF r \in SessionSites THEN Val(LotOf(r)) ELSE None
    /\ UNCHANGED <<score, result, history, session_state, accepted, database, services>>

Authenticated == Truthy(Get(session_state, "authenticated", None))

\* app.py 376-536: the search button or a new deep-link address starts the
\* handler; property_data and assessment_results are the record itself
SearchHandler ==
    /\ Authenticated
    /\ services # None
    /\ \E s \in {services[1]} :
           LET auto_trigger_search ==
                   s.deep_link /\ Val(s.address) # session_state.deep_link_applied_address
               Located(session) ==
                   Update(session,
                          [deep_link_applied_address |-> Val(s.address),
                           last_address |-> Val(s.address)]
                          @@ (IF s.coords # None THEN [last_coords |-> s.coords] ELSE << >>))
               Complete(session) ==
                   Update(session, [assessment_complete |-> Val(TRUE),
                                    search_triggered |-> Val(TRUE)])
           IN  /\ ~s.deep_link \/ auto_trigger_search
               /\ \E h \in {search_handler(s, session_state.selected_project_type[1])} :
                      /\ assessment_data' = IF h.stored THEN Val(h.value) ELSE assessment_data
                      /\ session_state' =
                             IF h.stored /\ "recommendations" \in DOMAIN h.value
                             THEN Complete(Located(session_state))
                             ELSE Located(session_state)
                      /\ result' = [fn |-> "search_handler", stored |-> h.stored]
    /\ UNCHANGED <<lot, score, history, accepted, database, services>>

\* app.py 682-689, rendered once a record is in property_data
RenderScoresCard ==
    /\ Authenticated
    /\ Truthy(Get(session_state, "assessment_complete", None))
    /\ assessment_data # Val(<< >>)   \* property_data, emptied by Clear
    /\ result' = detailed_score_breakdown(assessment_data[1]) @@ [fn |-> "render_scores_card"]
    /\ UNCHANGED <<assessment_data, lot, score, history, session_state, accepted, database, services>>

\* app.py 709-713: the Save Assessment button stamps the session record and
\* saves it; an exception of save_assessment ends the run
SaveAssessmentButton ==
    /\ Authenticated
    /\ Truthy(Get(session_state, "assessment_complete", None))
    /\ assessment_data # Val(<< >>)   \* property_data, emptied by Clear
    /\ Len(database) < MaxRows
    /\ LET stamped == Put(assessment_data[1], "timestamp", Val("now"))
           saved == save_assessment(database, stamped)
       IN  /\ assessment_data' = Val(stamped)
           /\ database' = saved.rows
           /\ result' = [fn |-> "save_assessment", raised |-> saved.raised,
                         error |-> IF saved.raised THEN saved.error ELSE "",
                         key |-> IF saved.raised THEN saved.key ELSE "",
                         lastrowid |-> IF saved.raised THEN 0 ELSE saved.lastrowid,
                         rows_before |-> Len(database)]
    /\ UNCHANGED <<lot, score, history, session_state, accepted, services>>

\* app.py 274-281: the Clear button
ClearSearch ==
    /\ Authenticated
    /\ assessment_data # Val(<< >>)
    /\ assessment_data' = Val(<< >>)
    /\ session_state' = Update(session_state, [last_address |-> None, last_coords |-> None,
                                               search_triggered |-> Val(FALSE)])
    /\ result' = [fn |-> "clear"]
    /\ UNCHANGED <<lot, score, history, accepted, database, services>>

\* a call of save_assessment on a record
SaveAssessment ==
    /\ assessment_data # None
    /\ Len(database) < MaxRows
    /\ LET saved == save_assessment(database, assessment_data[1])
       IN  /\ database' = saved.rows
           /\ result' = [fn |-> "save_assessment", raised |-> saved.raised,
                         error |-> IF saved.raised THEN saved.error ELSE "",
                         key |-> IF saved.raised THEN saved.key ELSE "",
                         lastrowid |-> IF saved.raised THEN 0 ELSE saved.lastrowid,
                         rows_before |-> Len(database)]
    /\ UNCHANGED <<assessment_data, lot, score, history, session_state, accepted, services>>

\* a call of get_assessment on an id of the table or the next free one
GetAssessment ==
    /\ \E assessment_id \in 1..(Len(database) + 1) :
           result' = [fn |-> "get_assessment", assessment_id |-> assessment_id,
                      value |-> get_assessment(database, assessment_id)]
    /\ UNCHANGED <<assessment_data, lot, score, history, session_state, accepted, database, services>>

\* app.py 73-99 and 108-133: a run of the script with an auth_bypass query
\* parameter; without the bypass check_authentication shows the login page
\* and stops the run unless the session is authenticated
RunApp ==
    LET \* the values of the auth_bypass query parameter
        BypassParams == {"", "true", " TRUE ", "false", "1"}
    IN  \E auth_bypass_param \in BypassParams :
            LET bypassed == Update(session_state,
                                   [authenticated |-> Val(TRUE),
                                    user |-> Val([email |-> "admin@urhappyhome.com",
                                                  name |-> "Administrator"])])
                initialised == Default(Default(session_state, "authenticated", Val(FALSE)),
                                       "user", None)
            IN  /\ session_state' =
                       IF auth_bypass_enabled(auth_bypass_param) THEN SessionDefaults(bypassed)
                       ELSE IF Truthy(initialised.authenticated) THEN SessionDefaults(initialised)
                       ELSE initialised
                /\ result' = [fn |-> "app",
                              page |-> IF auth_bypass_enabled(auth_bypass_param)
                                          \/ Truthy(initialised.authenticated)
                                       THEN "main" ELSE "login"]
                /\ UNCHANGED <<assessment_data, lot, score, history, accepted, database, services>>

\* simple_auth.py 52-67: the login form, shown while the session is not authenticated
SubmitLogin ==
    LET LoginPasswords == {TEAM_CREDENTIALS[e].password : e \in DOMAIN TEAM_CREDENTIALS} \cup {"", "guess"}
        LoginEmails == DOMAIN TEAM_CREDENTIALS \cup {"", "intruder@example.com"}
    IN  /\ Get(session_state, "authenticated", None) = Val(FALSE)
        /\ \E email \in LoginEmails, password \in LoginPasswords :
               LET user == verify_credentials(email, password)
                   accept == email # "" /\ password # "" /\ user # None
               IN  /\ session_state' = IF accept
                                       THEN Update(session_state, [authenticated |-> Val(TRUE),
                                                                   user |-> user])
                                       ELSE session_state
                   /\ accepted' = IF accept THEN Val(email) ELSE accepted
                   /\ result' = [fn |-> "show_login_page", email |-> email, password |-> password,
                                 message |-> IF email = "" \/ password = ""
                                             THEN "Please enter both email and password"
                                             ELSE IF accept THEN "Welcome"
                                             ELSE "Invalid credentials. Please try again."]
        /\ UNCHANGED <<assessment_data, lot, score, history, database, services>>

\* simple_auth.py 87-97: the logout button
Logout ==
    /\ Authenticated
    /\ session_state' = Update(session_state, [authenticated |-> Val(FALSE), user |-> None])
    /\ accepted' = None
    /\ result' = [fn |-> "show_logout_button"]
    /\ UNCHANGED <<assessment_data, lot, score, history, database, services>>

\* app.py 257-258: the project type selector of the main page
SelectProjectType ==
    /\ Authenticated
    /\ "selected_project_type" \in DOMAIN session_state
    /\ \E project_type \in ProjectTypes :
           session_state' = Put(session_state, "selected_project_type", Val(project_type))
    /\ result' = [fn |-> "render_project_type_selector"]
    /\ UNCHANGED <<assessment_data, lot, score, history, accepted, database, services>>

\* app.py 835-: the admin-only analytics tab
PortfolioAnalytics ==
    /\ Authenticated
    /\ is_admin_user(session_state)
    /\ result' = [fn |-> "portfolio_analytics"]
    /\ UNCHANGED <<assessment_data, lot, score, history, session_state, accepted, database, services>>

----------------------------------------------------------------------------
(* Specifications *)

\* scoring of an assessment record
Init ==
    /\ assessment_data \in {Val(d) : d \in Records}
    /\ lot = None
    /\ score = None
    /\ result = NoCall
    /\ history = << >>
    /\ session_state = << >>
    /\ accepted = None
    /\ database = << >>
    /\ services = None

Next ==
    \/ CalculateWeightedScore
    \/ GetViabilityStatusFromScore
    \/ DetailedScoreBreakdown

Spec == Init /\ [][Next]_vars

\* the verdict of an arbitrary score
InitVerdict ==
    LET Scores == 0..1000
    IN  /\ assessment_data = None
        /\ lot = None
        /\ score \in {Val(s) : s \in Scores}
        /\ result = NoCall
        /\ history = << >>
        /\ session_state = << >>
        /\ accepted = None
        /\ database = << >>
        /\ services = None

NextVerdict == GetViabilityStatusFromScore

SpecVerdict == InitVerdict /\ [][NextVerdict]_vars

\* the physical score of a lot
InitPhysical ==
    /\ assessment_data = None
    /\ lot \in {Val(a) : a \in PhysicalLots}
    /\ score = None
    /\ result = NoCall
    /\ history = << >>
    /\ session_state = << >>
    /\ accepted = None
    /\ database = << >>
    /\ services = None

NextPhysical == CalculateProjectPhysicalScore

SpecPhysical == InitPhysical /\ [][NextPhysical]_vars

\* the design-fit validation of a lot
InitDesign ==
    LET \* the optional assessment_data of the validator: not supplied, an empty
        \* record, or a record with or without an amenities summary
        DesignData ==
            {None, Val(<< >>)}
            \cup {Val(Merge([address |-> Val("1 Test St")], am)) : am \in AmenityFields}
    IN  /\ assessment_data \in DesignData
        /\ lot \in {Val(a) : a \in DesignLots}
        /\ score = None
        /\ result = NoCall
        /\ history = << >>
        /\ session_state = << >>
        /\ accepted = None
        /\ database = << >>
        /\ services = None

NextDesign == ValidateUrhhDesign

SpecDesign == InitDesign /\ [][NextDesign]_vars

\* the regulatory check of a record
InitRegulatory ==
    /\ assessment_data \in {Val(d) : d \in RegulatoryRecords}
    /\ lot = None
    /\ score = None
    /\ result = NoCall
    /\ history = << >>
    /\ session_state = << >>
    /\ accepted = None
    /\ database = << >>
    /\ services = None

NextRegulatory == EvaluateRoomingHouseCompliance

SpecRegulatory == InitRegulatory /\ [][NextRegulatory]_vars

\* the design suitability check of a record
InitSuitability ==
    LET \* the zone names of the model and, for each, the names of the two compliant
        \* lists that occur in it when both are lower-cased (`cz.lower() in zone.lower()`)
        ZoneNames ==
            {"", "Unknown", "Industrial 1 Zone", "General Residential", "General Residential Zone",
             "GENERAL RESIDENTIAL ZONE - SCHEDULE 1", "Residential Growth Zone",
             "Neighbourhood Residential Zone", "Mixed Use", "Mixed Use Zone"}
        \* the records the design suitability check is run on: each field it reads
        \* absent, None, or on either side of its test
        SuitabilityRecords ==
            {Merge(Merge(a, z), t) :
                a \in Optional("lot_area", {None, Val(0), Val(17099), Val(17100), Val(31600)}),
                z \in Optional("zone_type", {None} \cup {Val(n) : n \in ZoneNames}),
                t \in Optional("dist_transport", {None, Val(400), Val(800), Val(801), Val(9999)})}
    IN  /\ assessment_data \in {Val(d) : d \in SuitabilityRecords}
        /\ lot = None
        /\ score = None
        /\ result = NoCall
        /\ history = << >>
        /\ session_state = << >>
        /\ accepted = None
        /\ database = << >>
        /\ services = None

NextSuitability == EvaluateSiteSuitabilityForDesign

SpecSuitability == InitSuitability /\ [][NextSuitability]_vars

\* a whole assessment of a record: score, verdict, breakdown and design fit,
\* the validator being called with the record's own lot fields
InitAssessment ==
    /\ assessment_data \in {Val(d) : d \in AssessmentRecords}
    /\ lot = Val(LotOf(assessment_data[1]))
    /\ score = None
    /\ result = NoCall
    /\ history = << >>
    /\ session_state = << >>
    /\ accepted = None
    /\ database = << >>
    /\ services = None

NextAssessment ==
    \/ CalculateWeightedScore
    \/ GetViabilityStatusFromScore
    \/ DetailedScoreBreakdown
    \/ ValidateUrhhDesign
    \/ EstimateRevenuePotential

SpecAssessment == InitAssessment /\ [][NextAssessment]_vars

\* a session: engine calls on several records, in any order
InitSession ==
    /\ assessment_data \in {Val(r) : r \in SessionRecords}
    /\ lot = IF assessment_data[1] \in SessionSites THEN Val(LotOf(assessment_data[1])) ELSE None
    /\ score = None
    /\ result = NoCall
    /\ history = << >>
    /\ session_state = << >>
    /\ accepted = None
    /\ database = << >>
    /\ services = None

NextSession ==
    \/ SessionScore
    \/ SessionBreakdown
    \/ SessionValidate
    \/ SessionRevenue
    \/ SessionRegulatoryCheck
    \/ SwitchRecord

SpecSession == InitSession /\ [][NextSession]_vars

\* an address search by a logged-in team member, then the cards of the record
InitSearch ==
    LET \* the session of a team member who logged in and chose a project type
        LoggedIn(email, project_type) ==
            Put(SessionDefaults([authenticated |-> Val(TRUE),
                                 user |-> verify_credentials(email, TEAM_CREDENTIALS[email].password)]),
                "selected_project_type", Val(project_type))
    IN  /\ assessment_data = Val(<< >>)
        /\ lot = None
        /\ score = None
        /\ result = NoCall
        /\ history = << >>
        /\ \E email \in {"assessor1@urhappyhome.com"}, project_type \in ProjectTypes :
               /\ session_state = LoggedIn(email, project_type)
               /\ accepted = Val(email)
        /\ database = << >>
        /\ services \in {Val(s) : s \in Services}

NextSearch ==
    \/ SearchHandler
    \/ RenderScoresCard
    \/ SaveAssessmentButton
    \/ ClearSearch

SpecSearch == InitSearch /\ [][NextSearch]_vars

\* the assessments table: records saved and read back
InitDatabase ==
    LET \* records with every column of the table: scored sites with an address, a
        \* position, a zone name and the score and verdict the scorer gives them
        SavableRecords ==
            {LET scored == calculate_weighted_score(r)
                 viability == get_viability_status_from_score(scored.total)
             IN  Update(r, [address |-> Val("12 Smith St"), latitude |-> Val(-378100),
                            longitude |-> Val(1449700),
                            zone_type |-> Val(IF Truthy(r.is_preferred_zone)
                                              THEN "General Residential Zone" ELSE "Industrial 1 Zone"),
                            raw_score |-> Val(scored.total),
                            viability_status |-> Val(viability.status),
                            viability_color |-> Val(viability.color)]) :
             r \in {q \in CrossRecords : q.dist_transport \in {Val(400), Val(801)}
                                          /\ q.check_heating = Val(TRUE) /\ q.check_windows = Val(TRUE)}}
    IN  /\ assessment_data \in {Val(d) : d \in SavableRecords}
        /\ lot = None
        /\ score = None
        /\ result = NoCall
        /\ history = << >>
        /\ session_state = << >>
        /\ accepted = None
        /\ database = << >>
        /\ services = None

NextDatabase ==
    \/ SaveAssessment
    \/ GetAssessment

SpecDatabase == InitDatabase /\ [][NextDatabase]_vars

\* a browser session from its first run of the script
InitAuth ==
    /\ assessment_data = Val(<< >>)
    /\ lot = None
    /\ score = None
    /\ result = NoCall
    /\ history = << >>
    /\ session_state = << >>
    /\ accepted = None
    /\ database = << >>
    /\ services = None

NextAuth ==
    \/ RunApp
    \/ SubmitLogin
    \/ Logout
    \/ SelectProjectType
    \/ PortfolioAnalytics

SpecAuth == InitAuth /\ [][NextAuth]_vars

----------------------------------------------------------------------------
(* Properties *)

Returned(fn) == result.fn = fn /\ ~result.raised

Range(seq) == {seq[i] : i \in DOMAIN seq}

\* C1: on every well-typed record and project type calculate_weighted_score
\* returns a total within [0, 100], and the sub-scores it combined lie within
\* zone [0,25], transport [0,25], physical [0,25] and compliance [0,10].
C1_ScoresInRange ==
    Returned("calculate_weighted_score") =>
        /\ result.total \in 0..1000
        /\ result.zone_score \in 0..25
        /\ result.transport_score \in 0..25
        /\ result.physical_score \in 0..25
        /\ result.compliance_score \in 0..10

\* the scorer returned the top of the range
C1_Witness ==
    /\ Returned("calculate_weighted_score")
    /\ result.total = 1000
    /\ result.physical_score = 25

\* C2: the returned total is 1.6*zone + transport + physical + compliance of
\* the record's four sub-scores (in tenths of a point: 16*zone + 10*the rest),
\* and the record with all four sub-scores at their maxima scores exactly 100.0.
C2_WeightedSum ==
    Returned("calculate_weighted_score") =>
        /\ result.total = 16 * result.zone_score
                            + 10 * (result.transport_score + result.physical_score
                                      + result.compliance_score)
        /\ (/\ result.zone_score = 25 /\ result.transport_score = 25
            /\ result.physical_score = 25 /\ result.compliance_score = 10)
           => result.total = 1000

\* a non-preferred zone with partial sub-scores: 16.0 + 22 + 24 + 6 = 68.0
C2_Witness ==
    /\ Returned("calculate_weighted_score")
    /\ result.zone_score = 10
    /\ result.transport_score = 22
    /\ result.physical_score = 24
    /\ result.compliance_score = 6
    /\ result.total = 680

\* C3: a record with an overlay or a covenant has zone sub-score 0 in the
\* scorer and the breakdown, a total of at most 60, and a verdict that is
\* never HIGHLY SUITABLE, whatever its other fields and project type.
C3_HardFail ==
    LET d == assessment_data[1]
    IN  (d.has_overlay = Val(TRUE) \/ d.has_covenant = Val(TRUE)) =>
            /\ Returned("calculate_weighted_score")
                   => result.zone_score = 0 /\ result.total <= 600
            /\ Returned("detailed_score_breakdown") => result.zone.score = 0
            /\ result.fn = "get_viability_status_from_score"
                   => result.status # "HIGHLY SUITABLE"

\* a covenant alone, everything else at its best: verdict on the score 60.0
C3_Witness ==
    /\ assessment_data[1].has_covenant = Val(TRUE)
    /\ assessment_data[1].has_overlay = Val(FALSE)
    /\ assessment_data[1].is_preferred_zone = Val(TRUE)
    /\ result.fn = "get_viability_status_from_score"
    /\ result.score = 600
    /\ result.status = "CONDITIONAL"

\* C4: every score gets exactly one verdict: >= 75 HIGHLY SUITABLE/green,
\* 50 <= s < 75 CONDITIONAL/orange, < 50 NOT SUITABLE/red; 75 and 50 belong to
\* the higher band and status and color agree.
C4_VerdictBands ==
    result.fn = "get_viability_status_from_score" =>
        /\ result.score >= 750
               => result.status = "HIGHLY SUITABLE" /\ result.color = "green"
        /\ (500 <= result.score /\ result.score < 750)
               => result.status = "CONDITIONAL" /\ result.color = "orange"
        /\ result.score < 500
               => result.status = "NOT SUITABLE" /\ result.color = "red"
        /\ <<result.status, result.color>> \in
               {<<"HIGHLY SUITABLE", "green">>, <<"CONDITIONAL", "orange">>,
                <<"NOT SUITABLE", "red">>}

\* the verdict of the boundary score 75.0
C4_Witness ==
    /\ result.fn = "get_viability_status_from_score"
    /\ result.score = 750
    /\ result.status = "HIGHLY SUITABLE"
    /\ result.color = "green"

\* C5: the transport sub-score is the band of dist_transport (<=400: 25,
\* <=600: 22, <=800: 18, <=1000: 10, else 0); for SDA/NDIS Unit it is
\* min(band, 8) when no hospital distance is known or the nearest hospital is
\* beyond 5000 m, and the plain band when a hospital is within 5000 m (5000
\* itself included).  The scorer and the breakdown both follow it.
C5_TransportRule ==
    LET d == assessment_data[1]
        dist == d.dist_transport[1]
        band == CASE dist <= 400 -> 25
                  [] dist > 400 /\ dist <= 600 -> 22
                  [] dist > 600 /\ dist <= 800 -> 18
                  [] dist > 800 /\ dist <= 1000 -> 10
                  [] OTHER -> 0
        hs == IF "amenities_summary" \in DOMAIN d
              THEN d.amenities_summary[1].hospitals[1] ELSE << >>
        within == \E i \in DOMAIN hs :
                      hs[i].distance_m # None /\ hs[i].distance_m[1] <= 5000
        expected == IF d.project_type = Val(PROJECT_TYPE_SDA) /\ ~within
                    THEN (IF band < 8 THEN band ELSE 8) ELSE band
    IN  /\ Returned("calculate_weighted_score") => result.transport_score = expected
        /\ Returned("detailed_score_breakdown") => result.transport.score = expected

\* SDA/NDIS at 400 m whose nearest of two hospitals is exactly 5000 m away
C5_Witness ==
    /\ Returned("calculate_weighted_score")
    /\ assessment_data[1].project_type = Val(PROJECT_TYPE_SDA)
    /\ assessment_data[1].dist_transport = Val(400)
    /\ "amenities_summary" \in DOMAIN assessment_data[1]
    /\ assessment_data[1].amenities_summary[1].hospitals[1]
           = <<[distance_m |-> Val(5001)], [distance_m |-> Val(5000)]>>
    /\ result.transport_score = 25

\* C6: the zone sub-score is 0 if has_overlay or has_covenant (whatever
\* is_preferred_zone), otherwise 25 if is_preferred_zone, otherwise 10, in
\* both calculate_weighted_score and detailed_score_breakdown.
C6_ZoneRule ==
    LET d == assessment_data[1]
        expected == IF d.has_overlay[1] \/ d.has_covenant[1] THEN 0
                    ELSE IF d.is_preferred_zone[1] THEN 25 ELSE 10
    IN  /\ Returned("calculate_weighted_score") => result.zone_score = expected
        /\ Returned("detailed_score_breakdown") => result.zone.score = expected

\* the breakdown of a preferred-zone record that carries an overlay
C6_Witness ==
    /\ Returned("detailed_score_breakdown")
    /\ assessment_data[1].has_overlay = Val(TRUE)
    /\ assessment_data[1].is_preferred_zone = Val(TRUE)
    /\ result.zone.score = 0

\* C7: with boolean check_heating, check_windows and check_energy the
\* compliance sub-score is 0, 3, 6 or 10 for 0, 1, 2 or 3 true flags and
\* nothing else, in both calculate_weighted_score and detailed_score_breakdown.
C7_ComplianceTable ==
    LET d == assessment_data[1]
        count == Cardinality({k \in {"check_heating", "check_windows", "check_energy"} :
                                 d[k] = Val(TRUE)})
        expected == <<0, 3, 6, 10>>[count + 1]
    IN  /\ Returned("calculate_weighted_score") => result.compliance_score = expected
        /\ Returned("detailed_score_breakdown") => result.compliance.score = expected

\* two flags set (heating and energy) score 6 in the scorer
C7_Witness ==
    /\ Returned("calculate_weighted_score")
    /\ assessment_data[1].check_heating = Val(TRUE)
    /\ assessment_data[1].check_windows = Val(FALSE)
    /\ assessment_data[1].check_energy = Val(TRUE)
    /\ result.compliance_score = 6

\* C8: _calculate_project_physical_score returns the sum of the four band
\* scores against the project type's thresholds: width 8/5/2/0, depth 8/5/2/0,
\* area 6/4/1/0 with the tabled band edges, slope Flat 3, Moderate 2, else 0;
\* the total never exceeds 25.
C8_PhysicalBands ==
    result.fn = "_calculate_project_physical_score" =>
        LET a == lot[1]
            t == get_logic_thresholds(a.project_type)
            w == a.lot_width[1]
            x == a.lot_depth[1]
            ar == a.lot_area[1]
            near_w == IF t.min_width - 50 > 1200 THEN t.min_width - 50 ELSE 1200
            low_w == IF t.min_width - 100 > 1150 THEN t.min_width - 100 ELSE 1150
            near_a == IF t.target_area_min - 4000 > 28000 THEN t.target_area_min - 4000 ELSE 28000
            low_a == IF t.target_area_min - 9000 > 24000 THEN t.target_area_min - 9000 ELSE 24000
            width_pts == CASE w >= t.min_width -> 8
                           [] w < t.min_width /\ w >= near_w -> 5
                           [] w < near_w /\ w >= low_w -> 2
                           [] OTHER -> 0
            depth_pts == CASE x >= t.min_depth /\ x <= t.max_depth -> 8
                           [] (x < t.min_depth /\ x >= t.min_depth - 160)
                                \/ (x > t.max_depth /\ x <= t.max_depth + 240) -> 5
                           [] (x < t.min_depth - 160 /\ x >= t.min_depth - 360)
                                \/ x > t.max_depth + 240 -> 2
                           [] OTHER -> 0
            area_pts == CASE ar >= t.target_area_min /\ ar <= t.target_area_max -> 6
                          [] (ar < t.target_area_min /\ ar >= near_a)
                               \/ (ar > t.target_area_max /\ ar <= t.target_area_max + 8000) -> 4
                          [] (ar < near_a /\ ar >= low_a) \/ ar > t.target_area_max + 8000 -> 1
                          [] OTHER -> 0
            slope_pts == CASE a.slope = Val("Flat") -> 3
                           [] a.slope = Val("Moderate") -> 2
                           [] OTHER -> 0
        IN  /\ result.value = <<width_pts + depth_pts + area_pts + slope_pts,
                                width_pts, depth_pts, area_pts, slope_pts>>
            /\ result.value[1] <= 25

\* a rooming-house lot in every partial band: 12.0 m wide (5), 30.0 m deep at
\* the top of the expanded band (5), 426 sqm (4), moderate slope (2)
C8_Witness ==
    /\ result.fn = "_calculate_project_physical_score"
    /\ lot[1].project_type = Val(PROJECT_TYPE_ROOMING)
    /\ lot[1].lot_width = Val(1200)
    /\ lot[1].lot_depth = Val(3000)
    /\ lot[1].lot_area = Val(42600)
    /\ result.value = <<16, 5, 5, 4, 2>>

\* C9: validate_urhh_design passes exactly when it gives no reason; the width
\* (< min_width), depth (< min_depth) and area (< min_lot_area) rules each add
\* their own reason independently of the others; the Scenario C lot (rooming
\* house, 12.0 x 25.0 m, 310 sqm) fails with 3 reasons; a depth above
\* max_depth adds no reason.
C9_AdditiveRules ==
    result.fn = "validate_urhh_design" =>
        LET a == lot[1]
            t == get_logic_thresholds(a.project_type)
            said(reason) == reason \in Range(result.reasons)
        IN  /\ result.pass_fail <=> (result.reasons = << >>)
            /\ said("Lot width is less than required minimum") <=> (a.lot_width[1] < t.min_width)
            /\ said("Lot depth is less than required minimum") <=> (a.lot_depth[1] < t.min_depth)
            /\ said("Lot area is less than required minimum") <=> (a.lot_area[1] < t.min_lot_area)
            /\ (/\ a.project_type = Val(PROJECT_TYPE_ROOMING) /\ a.lot_width = Val(1200)
                /\ a.lot_depth = Val(2500) /\ a.lot_area = Val(31000))
               => (~result.pass_fail /\ Len(result.reasons) = 3)
            /\ (/\ a.lot_depth[1] > t.max_depth /\ a.lot_width[1] >= t.min_width
                /\ a.lot_area[1] >= t.min_lot_area /\ a.project_type # Val(PROJECT_TYPE_SDA))
               => result.pass_fail

\* the Scenario C lot validated: three reasons
C9_Witness ==
    /\ result.fn = "validate_urhh_design"
    /\ lot[1].project_type = Val(PROJECT_TYPE_ROOMING)
    /\ lot[1].lot_width = Val(1200)
    /\ lot[1].lot_depth = Val(2500)
    /\ lot[1].lot_area = Val(31000)
    /\ Len(result.reasons) = 3
    /\ ~result.pass_fail

\* C10: for SDA/NDIS Unit validate_urhh_design fails with a hospital reason
\* whenever no hospital distance is available (no record supplied, an empty
\* record, or no hospital entry carrying a distance) or the nearest hospital
\* is more than 5000 m away, whatever the lot dimensions.
C10_HospitalRequired ==
    (result.fn = "validate_urhh_design" /\ lot[1].project_type = Val(PROJECT_TYPE_SDA)) =>
        LET d == IF assessment_data = None THEN << >> ELSE assessment_data[1]
            hs == IF "amenities_summary" \in DOMAIN d
                  THEN d.amenities_summary[1].hospitals[1] ELSE << >>
            within == \E i \in DOMAIN hs :
                          hs[i].distance_m # None /\ hs[i].distance_m[1] <= 5000
        IN  ~within =>
                /\ ~result.pass_fail
                /\ \E r \in Range(result.reasons) :
                       r \in {"SDA/NDIS requires nearest hospital check, but no hospital data was found",
                              "SDA/NDIS hospital proximity not met"}

\* C11: overall_compliant is true exactly when gross_floor_area_ok,
\* persons_ok and bedrooms_ok are all true (a supplied floor area passes when
\* it is at most 300 sqm); the zone fields and overlays of the record change
\* neither overall_compliant nor any check, and the record with floor area 280
\* sqm, 5 persons and 5 bedrooms is compliant in every zone.
C11_OverallCompliance ==
    Returned("evaluate_rooming_house_compliance") =>
        LET d == assessment_data[1]
            size == [k \in (DOMAIN d) \ {"zone_type", "zone", "overlays"} |-> d[k]]
            gfa == Get(d, "gross_floor_area", None)
        IN  /\ result.overall_compliant
                 = (/\ result.checks.gross_floor_area_ok
                    /\ result.checks.persons_ok
                    /\ result.checks.bedrooms_ok)
            /\ \A z \in ZoneFields :
                   LET other == evaluate_rooming_house_compliance(Merge(size, z))
                   IN  /\ other.overall_compliant = result.overall_compliant
                       /\ other.checks = result.checks
            /\ (gfa # None /\ gfa[1].kind = "num" /\ gfa[1].n # 0)
                   => result.checks.gross_floor_area_ok = (gfa[1].n <= 30000)
            /\ (/\ gfa = PyNum(28000)
                /\ Get(d, "persons_accommodated", None) = PyNum(5)
                /\ Get(d, "bedrooms", None) = PyNum(5))
                   => result.overall_compliant

\* 280 sqm, 5 persons and 5 bedrooms in an industrial zone under an overlay
C11_Witness ==
    /\ Returned("evaluate_rooming_house_compliance")
    /\ Get(assessment_data[1], "gross_floor_area", None) = PyNum(28000)
    /\ Get(assessment_data[1], "persons_accommodated", None) = PyNum(5)
    /\ Get(assessment_data[1], "bedrooms", None) = PyNum(5)
    /\ Get(assessment_data[1], "zone", None) = Val("Industrial 1 Zone")
    /\ "zone_type" \notin DOMAIN assessment_data[1]
    /\ "overlays" \in DOMAIN assessment_data[1]
    /\ result.overall_compliant
    /\ result.checks = [gross_floor_area_ok |-> TRUE, persons_ok |-> TRUE,
                        bedrooms_ok |-> TRUE]

\* C12: persons_ok is true exactly when persons_accommodated is supplied, is
\* a valid integer and is at most 12; bedrooms_ok is true exactly when
\* bedrooms is supplied, is a valid integer and is at most 8, zero included;
\* a failing check makes overall_compliant false.  (Stated for records that
\* do not carry the legacy num_bedrooms key.)
C12_CountChecks ==
    (Returned("evaluate_rooming_house_compliance")
        /\ "num_bedrooms" \notin DOMAIN assessment_data[1]) =>
        LET d == assessment_data[1]
            persons == Get(d, "persons_accommodated", None)
            bedrooms == Get(d, "bedrooms", None)
        IN  /\ result.checks.persons_ok
                 = (persons # None /\ persons[1].kind = "num" /\ persons[1].n <= 12)
            /\ result.checks.bedrooms_ok
                 = (bedrooms # None /\ bedrooms[1].kind = "num" /\ bedrooms[1].n <= 8)
            /\ ~result.checks.persons_ok => ~result.overall_compliant
            /\ ~result.checks.bedrooms_ok => ~result.overall_compliant

\* C13: when gross_floor_area is absent or unusable and lot_area is a usable
\* number, the floor-area check is made on half the lot area (it passes
\* exactly when lot_area <= 600 sqm) and the estimate caveat is the reason just
\* before the check's own reason; when neither is usable the check and
\* overall_compliant are false with the 'unknown' reason; a usable
\* gross_floor_area is used in preference to lot_area, with no caveat.
C13_GfaFallback ==
    Returned("evaluate_rooming_house_compliance") =>
        LET d == assessment_data[1]
            gfa == Get(d, "gross_floor_area", None)
            lot_area == Get(d, "lot_area", None)
            Usable(x) == x # None /\ x[1].kind = "num" /\ x[1].n # 0
            caveat == "Gross floor area not supplied - using conservative estimate of 50% of lot area"
            own == {"Gross floor area within allowed limit",
                    "Gross floor area exceeds allowed limit"}
        IN  /\ (~Usable(gfa) /\ Usable(lot_area)) =>
                   /\ result.checks.gross_floor_area_ok = (lot_area[1].n <= 60000)
                   /\ result.reasons[1] = caveat
                   /\ result.reasons[2] \in own
            /\ (~Usable(gfa) /\ ~Usable(lot_area)) =>
                   /\ ~result.checks.gross_floor_area_ok
                   /\ ~result.overall_compliant
                   /\ result.reasons[1] = "Gross floor area unknown"
            /\ Usable(gfa) =>
                   /\ result.checks.gross_floor_area_ok = (gfa[1].n <= 30000)
                   /\ result.reasons[1] \in own
                   /\ caveat \notin Range(result.reasons)

\* a floor area that is not a number on a 600 sqm lot: estimated 300 sqm
C13_Witness ==
    /\ Returned("evaluate_rooming_house_compliance")
    /\ Get(assessment_data[1], "gross_floor_area", None) = PyText
    /\ Get(assessment_data[1], "lot_area", None) = PyNum(60000)
    /\ result.checks.gross_floor_area_ok
    /\ result.reasons[1] = "Gross floor area not supplied - using conservative estimate of 50% of lot area"
    /\ result.reasons[2] = "Gross floor area within allowed limit"

\* C14: for a record in which any of project_type, dist_transport, the lot
\* dimensions, slope, the overlay, covenant and checklist flags and
\* amenities_summary is absent or None, calculate_weighted_score,
\* detailed_score_breakdown and validate_urhh_design return a result and do not
\* raise; the scorer counts an absent or None lot dimension as 0 and an absent
\* or unknown project_type as Standard Rooming House.
C14_NeverRaises ==
    LET d == assessment_data[1]
        filled == [k \in {"lot_width", "lot_depth", "lot_area"} |->
                      IF Get(d, k, None) = None THEN Val(0) ELSE d[k]]
    IN  /\ result.fn \in {"calculate_weighted_score", "detailed_score_breakdown"}
               => ~result.raised
        /\ result.fn = "validate_urhh_design" => result.pass_fail \in BOOLEAN
        /\ Returned("calculate_weighted_score") =>
               result.physical_score =
                   _calculate_project_physical_score(
                       filled.lot_width, filled.lot_depth, filled.lot_area,
                       Get(d, "slope", Val("Moderate")),
                       Val(_normalize_project_type(Get(d, "project_type", None))))[1]

\* C15: for any project type passed (None, empty, blank, padded, unknown or
\* canonical) get_logic_thresholds returns one of the three threshold records,
\* the rooming-house one for anything unrecognized, and the scorer, the
\* breakdown and validate_urhh_design give what they give for the normalized
\* project type; in particular the validator emits the dedicated 650 sqm
\* reason exactly when the normalized type is Standard Dual Occupancy and the
\* area is below 650 sqm.
C15_NormalizedType ==
    LET d == assessment_data[1]
        raw == Get(d, "project_type", None)
        pt == _normalize_project_type(raw)
        normalized == [k \in (DOMAIN d) \cup {"project_type"} |->
                          IF k = "project_type" THEN Val(pt) ELSE d[k]]
        a == lot[1]
    IN  /\ get_logic_thresholds(raw) \in {get_logic_thresholds(Val(t)) : t \in ProjectTypes}
        /\ raw \notin ({Val(t) : t \in ProjectTypes}
                         \cup {Val(" Standard Rooming House "), Val(" SDA/NDIS Unit "),
                               Val(" Standard Dual Occupancy ")})
               => get_logic_thresholds(raw) = get_logic_thresholds(Val(PROJECT_TYPE_ROOMING))
        /\ Returned("calculate_weighted_score")
               => result.total = calculate_weighted_score(normalized).total
        /\ Returned("detailed_score_breakdown")
               => result.physical = detailed_score_breakdown(normalized).physical
        /\ result.fn = "validate_urhh_design" =>
               LET expected == validate_urhh_design(a.lot_width, a.lot_depth, a.lot_area,
                                                    Val(pt), assessment_data)
               IN  /\ result.pass_fail = expected.pass_fail
                   /\ result.reasons = expected.reasons
                   /\ ("Dual Occupancy requires minimum lot area of 650m2" \in Range(result.reasons))
                          = (pt = PROJECT_TYPE_DUAL_OCC /\ FloatOr0(a.lot_area) < 65000)

\* C16: for a record whose project type is Standard Rooming House or Standard
\* Dual Occupancy (after normalization), replacing amenities_summary by any
\* other hospital list, or dropping it, changes neither the total score, nor
\* the four sub-scores of the breakdown, nor the pass_fail, reasons and
\* recommendations of validate_urhh_design.
C16_HospitalsIgnored ==
    LET d == assessment_data[1]
        a == lot[1]
        pt == _normalize_project_type(Get(d, "project_type", None))
        Subscores(b) == <<b.zone.score, b.transport.score, b.physical.score,
                          b.compliance.score>>
    IN  pt \in {PROJECT_TYPE_ROOMING, PROJECT_TYPE_DUAL_OCC} =>
            \A am \in AmenityFields :
                LET other == Merge(Without(d, {"amenities_summary"}, {}), am)
                IN  /\ Returned("calculate_weighted_score")
                           => result.total = calculate_weighted_score(other).total
                    /\ Returned("detailed_score_breakdown")
                           => Subscores(result) = Subscores(detailed_score_breakdown(other))
                    /\ result.fn = "validate_urhh_design" =>
                           LET v == validate_urhh_design(a.lot_width, a.lot_depth,
                                                         a.lot_area, a.project_type,
                                                         Val(other))
                           IN  /\ result.pass_fail = v.pass_fail
                               /\ result.reasons = v.reasons
                               /\ result.recommendations = v.recommendations

\* a rooming house 400 m from transport whose two hospitals are both beyond
\* 5 km keeps the full transport band
C16_Witness ==
    /\ Returned("calculate_weighted_score")
    /\ Get(assessment_data[1], "project_type", None) = Val(PROJECT_TYPE_ROOMING)
    /\ Get(assessment_data[1], "dist_transport", None) = Val(400)
    /\ Get(assessment_data[1], "amenities_summary", None)
           = Val([hospitals |-> Val(<<[distance_m |-> Val(5001)],
                                      [distance_m |-> Val(5001)]>>)])
    /\ result.transport_score = 25
    /\ result.total = 1000

\* C17: estimate_revenue_potential returns weekly_min = round(units *
\* weekly_rate_min * m), weekly_max = round(units * weekly_rate_max * m) and
\* annual figures of 52 times the weekly ones, with the units and rates of the
\* record's project type and m = 1.10 (<= 400 m), 1.00 (<= 800 m), 0.92
\* (<= 1200 m), 0.85 (beyond), banded on the transport distance that
\* calculate_weighted_score uses for the same record: dist_transport, zero
\* included, and 1000 m when the record has none.
C17_RevenueBands ==
    (Returned("estimate_revenue_potential")
        /\ Get(assessment_data[1], "dist_transport", Val(1000)) # None) =>
        LET d == assessment_data[1]
            thresholds == get_logic_thresholds(Get(d, "project_type", None))
            dist == Get(d, "dist_transport", Val(1000))[1]
            m == CASE dist <= 400 -> 110
                   [] dist > 400 /\ dist <= 800 -> 100
                   [] dist > 800 /\ dist <= 1200 -> 92
                   [] OTHER -> 85
        IN  /\ result.transport_multiplier = m
            /\ result.units_assumed = thresholds.revenue_units
            /\ result.weekly_min
                 = RoundHalfEven(thresholds.revenue_units * thresholds.weekly_rate_min * m, 100)
            /\ result.weekly_max
                 = RoundHalfEven(thresholds.revenue_units * thresholds.weekly_rate_max * m, 100)
            /\ result.annual_min = 52 * result.weekly_min
            /\ result.annual_max = 52 * result.weekly_max

C19_SetbackFlags ==
    result.fn = "validate_urhh_design" =>
        LET a == lot[1]
            depth == a.lot_depth[1]
            thresholds == get_logic_thresholds(a.project_type)
            required == CASE a.project_type = Val(PROJECT_TYPE_ROOMING) -> <<3760, 4160>>
                          [] a.project_type = Val(PROJECT_TYPE_SDA) -> <<4060, 4700>>
                          [] a.project_type = Val(PROJECT_TYPE_DUAL_OCC) -> <<4000, 5400>>
            flags == result.setback_requirements
        IN  /\ required[1] = thresholds.min_depth + thresholds.front_setback
                               + thresholds.rear_setback_min
            /\ required[2] = thresholds.max_depth + thresholds.front_setback
                               + thresholds.rear_setback_max
            /\ flags.supports_minimum_blueprint_with_setbacks = (depth >= required[1])
            /\ flags.supports_full_blueprint_range_with_setbacks = (depth >= required[2])
            /\ flags.supports_full_blueprint_range_with_setbacks
                   => flags.supports_minimum_blueprint_with_setbacks
            /\ \A x \in DesignDepths :
                   (x < thresholds.min_depth) = (depth < thresholds.min_depth) =>
                       LET v == validate_urhh_design(a.lot_width, Val(x), a.lot_area,
                                                     a.project_type, assessment_data)
                       IN  /\ v.pass_fail = result.pass_fail
                           /\ v.reasons = result.reasons

\* the minimum rooming-house lot passes with both setback flags false
C19_Witness ==
    /\ result.fn = "validate_urhh_design"
    /\ lot[1].project_type = Val(PROJECT_TYPE_ROOMING)
    /\ lot[1].lot_width = Val(1244)
    /\ lot[1].lot_depth = Val(2560)
    /\ lot[1].lot_area = Val(31600)
    /\ result.pass_fail
    /\ ~result.setback_requirements.supports_minimum_blueprint_with_setbacks
    /\ ~result.setback_requirements.supports_full_blueprint_range_with_setbacks

\* C20: for Standard Dual Occupancy a lot area below 650 sqm yields two area
\* reasons, the min_lot_area reason and the dedicated 650 sqm reason, and an
\* area of 650 sqm or more yields neither; for the other two project types
\* the dedicated reason is never emitted.
C20_DualOccupancyArea ==
    result.fn = "validate_urhh_design" =>
        LET a == lot[1]
            general == "Lot area is less than required minimum"
            dedicated == "Dual Occupancy requires minimum lot area of 650m2"
            Count(reason) == Cardinality({i \in DOMAIN result.reasons :
                                             result.reasons[i] = reason})
        IN  /\ (a.project_type = Val(PROJECT_TYPE_DUAL_OCC) /\ a.lot_area[1] < 65000)
                   => Count(general) = 1 /\ Count(dedicated) = 1
            /\ (a.project_type = Val(PROJECT_TYPE_DUAL_OCC) /\ a.lot_area[1] >= 65000)
                   => Count(general) = 0 /\ Count(dedicated) = 0
            /\ a.project_type # Val(PROJECT_TYPE_DUAL_OCC) => Count(dedicated) = 0

\* a dual-occupancy lot one hundredth of a square metre short of 650 sqm
C20_Witness ==
    /\ result.fn = "validate_urhh_design"
    /\ lot[1].project_type = Val(PROJECT_TYPE_DUAL_OCC)
    /\ lot[1].lot_width = Val(1400)
    /\ lot[1].lot_depth = Val(2800)
    /\ lot[1].lot_area = Val(64999)
    /\ result.reasons = <<"Lot area is less than required minimum",
                          "Dual Occupancy requires minimum lot area of 650m2">>
    /\ ~result.pass_fail

\* C21: the width feedback of the breakdown names the band the width score
\* hit: 'Meets minimum' exactly when the width earns 8 points, 'Near minimum'
\* only when it earns 5 or 2 points, 'Below minimum' exactly when it earns 0.
C21_WidthFeedback ==
    Returned("detailed_score_breakdown") =>
        LET d == assessment_data[1]
            thresholds == get_logic_thresholds(Get(d, "project_type", None))
            width_score == WidthScore(FloatOr0(Get(d, "lot_width", Val(0))), thresholds)
            feedback == result.physical.feedback[1]
        IN  /\ (feedback = "Width: Meets minimum") = (width_score = 8)
            /\ (feedback = "Width: Near minimum") => width_score \in {5, 2}
            /\ (feedback = "Width: Below minimum") = (width_score = 0)

\* C22: on a record for which both functions return, the four sub-scores of
\* detailed_score_breakdown are the sub-scores calculate_weighted_score
\* combined, and the sum of the four weighted_score entries, rounded to one
\* decimal, is the score calculate_weighted_score returns; this holds for the
\* three project types, the SDA/NDIS hospital cap included.
C22_BreakdownMatchesScore ==
    Returned("detailed_score_breakdown") =>
        LET s == calculate_weighted_score(assessment_data[1])
        IN  ~s.raised =>
                /\ result.zone.score = s.zone_score
                /\ result.transport.score = s.transport_score
                /\ result.physical.score = s.physical_score
                /\ result.compliance.score = s.compliance_score
                /\ Round1(result.zone.weighted_score + result.transport.weighted_score
                            + result.physical.weighted_score
                            + result.compliance.weighted_score) = s.total

\* the breakdown of an SDA/NDIS record 400 m from transport with its only
\* hospital beyond 5 km: transport capped at 8, 40 + 8 + 24 + 10 = 82
C22_Witness ==
    /\ Returned("detailed_score_breakdown")
    /\ assessment_data[1].project_type = Val(PROJECT_TYPE_SDA)
    /\ assessment_data[1].dist_transport = Val(400)
    /\ _nearest_hospital_distance_m(assessment_data[1]) = Val(5001)
    /\ result.zone.score = 25
    /\ result.transport.score = 8
    /\ result.compliance.score = 10
    /\ calculate_weighted_score(assessment_data[1]).total
           = 400 + 80 + 10 * result.physical.score + 100

\* C28: for a record outside a preferred zone with no overlay and no covenant
\* (zone sub-score 10) the verdict of its calculate_weighted_score is HIGHLY
\* SUITABLE only if the transport sub-score is 25, the compliance sub-score
\* is 10 and the physical sub-score is at least 24; for an SDA/NDIS record
\* whose nearest hospital is unknown or beyond the maximum distance the
\* verdict is never HIGHLY SUITABLE in such a zone.
C28_NonPreferredZone ==
    Returned("calculate_weighted_score") =>
        LET d == assessment_data[1]
            thresholds == get_logic_thresholds(Get(d, "project_type", None))
            nearest_hospital_m == _nearest_hospital_distance_m(d)
            highly == get_viability_status_from_score(result.total).status = "HIGHLY SUITABLE"
        IN  (/\ ~Truthy(Get(d, "is_preferred_zone", None))
             /\ ~Truthy(Get(d, "has_overlay", None))
             /\ ~Truthy(Get(d, "has_covenant", None)))
            => /\ result.zone_score = 10
               /\ highly => /\ result.transport_score = 25
                            /\ result.compliance_score = 10
                            /\ result.physical_score >= 24
               /\ (/\ thresholds.requires_hospital_proximity
                   /\ \/ nearest_hospital_m = None
                      \/ nearest_hospital_m[1] > thresholds.max_hospital_distance_m[1])
                  => ~highly

\* a rooming house outside a preferred zone, 400 m from transport, all three
\* checks met, on a lot that earns 24 physical points: 16 + 25 + 24 + 10 = 75
C28_Witness ==
    /\ Returned("calculate_weighted_score")
    /\ assessment_data[1].is_preferred_zone = Val(FALSE)
    /\ assessment_data[1].has_overlay = Val(FALSE)
    /\ assessment_data[1].has_covenant = Val(FALSE)
    /\ result.zone_score = 10
    /\ result.transport_score = 25
    /\ result.compliance_score = 10
    /\ result.physical_score = 24
    /\ result.total = 750
    /\ get_viability_status_from_score(result.total).status = "HIGHLY SUITABLE"

\* C29: for Standard Rooming House and SDA/NDIS Unit no lot depth both earns
\* 8 depth points and has supports_minimum_blueprint_with_setbacks true; for
\* Standard Dual Occupancy the only such depth is exactly 40.0 m.  Hence a
\* physical sub-score of 25 never coexists with the 'PASS' setback
\* recommendation, for any project type.
C29_DepthAgainstSetbacks ==
    result.fn = "validate_urhh_design" =>
        LET a == lot[1]
            thresholds == get_logic_thresholds(a.project_type)
            physical == _calculate_project_physical_score(
                            a.lot_width, a.lot_depth, a.lot_area, a.slope, a.project_type)
            depth_score == physical[3]
            flags == result.setback_requirements
        IN  /\ (depth_score = 8 /\ flags.supports_minimum_blueprint_with_setbacks)
                   => /\ thresholds.project_type = PROJECT_TYPE_DUAL_OCC
                      /\ a.lot_depth = Val(4000)
            /\ (thresholds.project_type = PROJECT_TYPE_DUAL_OCC /\ a.lot_depth = Val(4000))
                   => (depth_score = 8 /\ flags.supports_minimum_blueprint_with_setbacks)
            /\ physical[1] = 25
                   => result.recommendations[2]
                          # "PASS: setback criteria are satisfied for this lot depth"

\* a dual-occupancy lot exactly 40.0 m deep: 8 depth points, 25 physical
\* points, the minimum blueprint fits with setbacks, the full range does not
C29_Witness ==
    /\ result.fn = "validate_urhh_design"
    /\ lot[1].project_type = Val(PROJECT_TYPE_DUAL_OCC)
    /\ lot[1].lot_depth = Val(4000)
    /\ _calculate_project_physical_score(lot[1].lot_width, lot[1].lot_depth, lot[1].lot_area,
                                         lot[1].slope, lot[1].project_type)
           = <<25, 8, 8, 6, 3>>
    /\ result.setback_requirements.supports_minimum_blueprint_with_setbacks
    /\ ~result.setback_requirements.supports_full_blueprint_range_with_setbacks
    /\ result.recommendations[2]
           = "Lot depth supports minimum Blueprint depth but not full target range with setbacks"

\* C30: whenever _calculate_project_physical_score gives 8 width points, 8
\* depth points and 6 area points, validate_urhh_design on the same
\* dimensions and project type reports no width, depth or area failure;
\* conversely every lot that passes the validator's geometry rules earns 8
\* width points, at least 2 depth points and at least 1 area point.
C30_ScorerAgainstValidator ==
    result.fn = "_calculate_project_physical_score" =>
        LET a == lot[1]
            v == validate_urhh_design(a.lot_width, a.lot_depth, a.lot_area, a.project_type, None)
            geometry == {"Lot width is less than required minimum",
                         "Lot depth is less than required minimum",
                         "Lot area is less than required minimum",
                         "Dual Occupancy requires minimum lot area of 650m2"}
            geometry_ok == Range(v.reasons) \cap geometry = {}
            width_score == result.value[2]
            depth_score == result.value[3]
            area_score == result.value[4]
        IN  /\ (width_score = 8 /\ depth_score = 8 /\ area_score = 6) => geometry_ok
            /\ geometry_ok => (width_score = 8 /\ depth_score >= 2 /\ area_score >= 1)

\* a rooming-house lot far deeper and larger than the target passes the
\* validator and earns 8 width points, 2 depth points and 1 area point
C30_Witness ==
    /\ result.fn = "_calculate_project_physical_score"
    /\ lot[1].project_type = Val(PROJECT_TYPE_ROOMING)
    /\ lot[1].lot_width = Val(1244)
    /\ lot[1].lot_depth = Val(4241)
    /\ lot[1].lot_area = Val(98001)
    /\ validate_urhh_design(lot[1].lot_width, lot[1].lot_depth, lot[1].lot_area,
                            lot[1].project_type, None).pass_fail
    /\ result.value[2] = 8
    /\ result.value[3] = 2
    /\ result.value[4] = 1

\* C27: evaluate_site_suitability_for_design returns all_checks_pass true
\* only if every entry of suitability_checks (lot_area_sufficient,
\* zone_suitable, transport_compliant, planning_noted, title_check_required)
\* is true; in particular a site more than 800 m from transport never has
\* all_checks_pass true.
C27_AllChecksPass ==
    Returned("evaluate_site_suitability_for_design") =>
        /\ result.all_checks_pass
               => \A k \in DOMAIN result.suitability_checks : result.suitability_checks[k]
        /\ Get(assessment_data[1], "dist_transport", Val(9999))[1] > 800
               => ~result.all_checks_pass

C24_SaveInsertsOneRow ==
    result.fn = "save_assessment" =>
        /\ ~result.raised
        /\ MissingKey(assessment_data[1]) = None
        /\ Len(database) = result.rows_before + 1

\* C25: a record saved with save_assessment and reloaded with get_assessment
\* keeps every field the scorers read: detailed_score_breakdown of the
\* reloaded record gives sub-scores whose weighted sum, rounded to one
\* decimal, is the raw_score stored in the same row.
C25_ReloadedBreakdownMatchesRawScore ==
    (result.fn = "get_assessment" /\ result.value # None) =>
        LET loaded == result.value[1]
            breakdown == detailed_score_breakdown(loaded)
        IN  /\ ~breakdown.raised
            /\ Val(Round1(breakdown.zone.weighted_score + breakdown.transport.weighted_score
                            + breakdown.physical.weighted_score
                            + breakdown.compliance.weighted_score)) = loaded.raw_score

\* C26: the session is authenticated only if verify_credentials accepted a
\* pair of TEAM_CREDENTIALS in this session with no logout since, and the
\* session user is the one verify_credentials returned for it; the main page
\* and the admin-only views are reached in no other way.
C26_AuthenticatedOnlyByCredentials ==
    /\ Authenticated =>
           /\ accepted # None
           /\ accepted[1] \in DOMAIN TEAM_CREDENTIALS
           /\ session_state.user[1].email = accepted[1]
    /\ result.fn \in {"portfolio_analytics", "render_project_type_selector"} => accepted # None
    /\ (result.fn = "app" /\ result.page = "main") => accepted # None

====
